---- MODULE Spec2Model ----
(***************************************************************************)
(* Model of src/src/utils/portfolioCalculations.ts: the return normaliser, *)
(* the fee adjuster, the SMA / rebase engine and the pipeline              *)
(* processPortfolioReturns that composes them.                             *)
(*                                                                         *)
(* JavaScript numbers are modelled as exact rationals [n, d] (d > 0, in    *)
(* lowest terms) extended with the three IEEE-754 values a division by     *)
(* zero produces: Infinity [1,0], -Infinity [-1,0] and NaN [0,0].  The     *)
(* JavaScript value `undefined` is the record Undefined.  Rounding error   *)
(* and the sign of zero are not modelled.  Array indices are 0-based as in *)
(* the source; At(s, i) reads element i of a TLA+ sequence.                *)
(***************************************************************************)
EXTENDS Integers, Sequences, FiniteSets, TLC

(* ---------------------------- bounds ---------------------------------- *)
MaxDay == 3
MaxWindow == 3
MaxRebase == 2
MaxTradingDay == 4

PriceValues == {1, 2, 3}
\* yearly fee percentages: daily rates 0, 1/2, 1 and 2
FeeValues == {0, 18250, 36500, 73000}

(* ------------------------ number arithmetic --------------------------- *)
Abs(x) == IF x < 0 THEN -x ELSE x

Sign(x) == IF x < 0 THEN -1 ELSE IF x > 0 THEN 1 ELSE 0

RECURSIVE GCD(_, _)
GCD(a, b) == IF b = 0 THEN a ELSE GCD(b, a % b)

Rat(n, d) ==
  IF d = 0 THEN [n |-> Sign(n), d |-> 0]
  ELSE LET g == GCD(Abs(n), Abs(d))
           s == IF d < 0 THEN -1 ELSE 1
       IN  [n |-> s * (n \div g), d |-> s * (d \div g)]

Num(i) == [n |-> i, d |-> 1]

NaN == [n |-> 0, d |-> 0]

Undefined == [n |-> 0, d |-> -1]

IsFinite(x) == x.d > 0

IsNaN(x) == x.d = 0 /\ x.n = 0

Neg(a) == [n |-> -a.n, d |-> a.d]

Add(a, b) ==
  IF IsFinite(a) /\ IsFinite(b) THEN Rat(a.n * b.d + b.n * a.d, a.d * b.d)
  ELSE IF IsNaN(a) \/ IsNaN(b) THEN NaN
  ELSE IF ~IsFinite(a) /\ ~IsFinite(b) THEN (IF a.n = b.n THEN a ELSE NaN)
  ELSE IF ~IsFinite(a) THEN a ELSE b

Sub(a, b) == Add(a, Neg(b))

Mul(a, b) ==
  IF IsFinite(a) /\ IsFinite(b) THEN Rat(a.n * b.n, a.d * b.d)
  ELSE Rat(a.n * b.n, 0)

Div(a, b) ==
  IF IsFinite(a) /\ IsFinite(b)
    THEN (IF b.n = 0 THEN Rat(a.n, 0) ELSE Rat(a.n * b.d, a.d * b.n))
  ELSE IF IsNaN(a) \/ IsNaN(b) THEN NaN
  ELSE IF ~IsFinite(a) /\ ~IsFinite(b) THEN NaN
  ELSE IF ~IsFinite(a) THEN Rat(a.n * (IF b.n < 0 THEN -1 ELSE 1), 0)
  ELSE Num(0)

\* a < b and a <= b on finite numbers; any comparison with NaN is false
Less(a, b) ==
  IF IsNaN(a) \/ IsNaN(b) THEN FALSE
  ELSE IF IsFinite(a) /\ IsFinite(b) THEN a.n * b.d < b.n * a.d
  ELSE IF IsFinite(a) THEN b.n > 0
  ELSE IF IsFinite(b) THEN a.n < 0
  ELSE a.n < b.n

\* JavaScript ===  on numbers: NaN equals nothing, not even itself
StrictEq(a, b) == ~IsNaN(a) /\ ~IsNaN(b) /\ a = b

LessEq(a, b) == Less(a, b) \/ StrictEq(a, b)

RECURSIVE Pow(_, _)
Pow(b, e) == IF e = 0 THEN Num(1) ELSE Mul(b, Pow(b, e - 1))

(* ------------------------ sequences ----------------------------------- *)
At(s, i) == s[i + 1]

Indices(s) == 0 .. (Len(s) - 1)

Min(a, b) == IF a < b THEN a ELSE b

\* Array.prototype.slice(from, to) for 0 <= from
Slice(s, from, to) ==
  LET hi == Min(to, Len(s))
  IN  IF from >= hi THEN << >> ELSE [k \in 1 .. (hi - from) |-> s[from + k]]

RECURSIVE SumReturns(_)
SumReturns(s) ==
  IF s = << >> THEN Num(0)
  ELSE Add(SumReturns(SubSeq(s, 1, Len(s) - 1)), s[Len(s)].returnPercent)

RECURSIVE SortedDays(_)
SortedDays(S) ==
  IF S = {} THEN << >>
  ELSE LET m == CHOOSE x \in S : \A y \in S : x <= y
       IN  <<m>> \o SortedDays(S \ {m})

(* ------------------------ inputs -------------------------------------- *)
Timestamp(day) == day * 86400000

PricePoint(day, p) == [date |-> day, timestamp |-> Timestamp(day), price |-> p]

\* chronologically ordered price series over any calendar within 1..MaxDay
PriceSeries ==
  UNION { { [k \in 1 .. Cardinality(days) |->
               PricePoint(SortedDays(days)[k], pr[SortedDays(days)[k]])]
            : pr \in [days -> PriceValues] }
          : days \in SUBSET (1 .. MaxDay) }

\* the catalogue of tracked assets, cut to its first entry: assets.map treats
\* every asset on its own, so a collection is empty or holds this one asset
PORTFOLIO_ASSETS == <<"BTC/USD">>

\* the assets compared on one chart
ComparedSymbols == <<"BTC/USD", "MSTR", "GBTC">>

\* trading calendars within 1..MaxTradingDay: every day (crypto), a market
\* holiday on day 3, listed from day 2 on
Calendars ==
  { 1 .. MaxTradingDay,
    (1 .. MaxTradingDay) \ {3},
    2 .. MaxTradingDay }

\* closing prices by day: flat, a step up on the day before the last one, a
\* step up on the last day, and a zig-zag between 3 and 2
PricePaths ==
  { [d \in 1 .. MaxTradingDay |-> 2],
    [d \in 1 .. MaxTradingDay |-> IF d < MaxTradingDay - 1 THEN 2 ELSE 3],
    [d \in 1 .. MaxTradingDay |-> IF d < MaxTradingDay THEN 2 ELSE 3],
    [d \in 1 .. MaxTradingDay |-> 2 + (d % 2)] }

ComparedSeries ==
  { [k \in 1 .. Cardinality(days) |->
       PricePoint(SortedDays(days)[k], path[SortedDays(days)[k]])]
    : days \in Calendars, path \in PricePaths }

\* SMA windows of the compared ranges: none, or two points
ComparedWindows == {0, 2}

(* ------------------------ the functions ------------------------------- *)
\* priceData[startIndex] is undefined and reading .price of it throws
calculateReturnsThrows(priceData, startIndex) ==
  Len(priceData) # 0 /\ startIndex \notin Indices(priceData)

\* variant: the start price is always taken from the first point
calculateReturns_firstPoint(priceData, startIndex) ==
  IF Len(priceData) = 0 THEN << >>
  ELSE LET startPrice == Num(At(priceData, 0).price)
       IN  [k \in 1 .. Len(priceData) |->
             [date |-> priceData[k].date,
              timestamp |-> priceData[k].timestamp,
              returnPercent |->
                Mul(Div(Sub(Num(priceData[k].price), startPrice), startPrice),
                    Num(100)),
              price |-> priceData[k].price,
              smaReturnPercent |-> Undefined]]

calculateReturns(priceData, startIndex) ==
  IF Len(priceData) = 0 THEN << >>
  ELSE LET startPrice == Num(At(priceData, startIndex).price)
       IN  [k \in 1 .. Len(priceData) |->
             [date |-> priceData[k].date,
              timestamp |-> priceData[k].timestamp,
              returnPercent |->
                Mul(Div(Sub(Num(priceData[k].price), startPrice), startPrice),
                    Num(100)),
              price |-> priceData[k].price,
              smaReturnPercent |-> Undefined]]

\* variant: the warm-up test is index < window
calculateSMA_longWarmup(returns, window) ==
  [k \in 1 .. Len(returns) |->
    LET index == k - 1
    IN  IF index < window
          THEN [returns[k] EXCEPT !.smaReturnPercent = Undefined]
        ELSE LET slice == Slice(returns, index - window + 1, index + 1)
                 avg == Div(SumReturns(slice), Num(window))
             IN  [returns[k] EXCEPT !.smaReturnPercent = avg]]

\* variant: the window ends before the current point
calculateSMA_shiftedWindow(returns, window) ==
  [k \in 1 .. Len(returns) |->
    LET index == k - 1
    IN  IF index < window - 1
          THEN [returns[k] EXCEPT !.smaReturnPercent = Undefined]
        ELSE LET slice == Slice(returns, IF index < window THEN 0
                                         ELSE index - window, index)
                 avg == Div(SumReturns(slice), Num(window))
             IN  [returns[k] EXCEPT !.smaReturnPercent = avg]]

calculateSMA(returns, window) ==
  [k \in 1 .. Len(returns) |->
    LET index == k - 1
    IN  IF index < window - 1
          THEN [returns[k] EXCEPT !.smaReturnPercent = Undefined]
        ELSE LET slice == Slice(returns, index - window + 1, index + 1)
                 avg == Div(SumReturns(slice), Num(window))
             IN  [returns[k] EXCEPT !.smaReturnPercent = avg]]

\* variant: the fee compounds from day 1 (exponent index + 1)
applyFees_fromDayOne(returns, yearlyFeePercent) ==
  IF Len(returns) = 0 \/ yearlyFeePercent = 0 THEN returns
  ELSE LET dailyFeeRate == Div(Div(Num(yearlyFeePercent), Num(100)), Num(365))
       IN  [k \in 1 .. Len(returns) |->
             LET index == k - 1
                 feeMultiplier == Pow(Sub(Num(1), dailyFeeRate), index + 1)
                 grossReturn ==
                   Add(Num(1), Div(returns[k].returnPercent, Num(100)))
                 netReturn == Mul(grossReturn, feeMultiplier)
                 netReturnPercent == Mul(Sub(netReturn, Num(1)), Num(100))
             IN  [returns[k] EXCEPT !.returnPercent = netReturnPercent]]

\* variant: the fee is added instead of deducted (1 + dailyFeeRate)
applyFees_feeAdded(returns, yearlyFeePercent) ==
  IF Len(returns) = 0 \/ yearlyFeePercent = 0 THEN returns
  ELSE LET dailyFeeRate == Div(Div(Num(yearlyFeePercent), Num(100)), Num(365))
       IN  [k \in 1 .. Len(returns) |->
             LET index == k - 1
                 feeMultiplier == Pow(Add(Num(1), dailyFeeRate), index)
                 grossReturn ==
                   Add(Num(1), Div(returns[k].returnPercent, Num(100)))
                 netReturn == Mul(grossReturn, feeMultiplier)
                 netReturnPercent == Mul(Sub(netReturn, Num(1)), Num(100))
             IN  [returns[k] EXCEPT !.returnPercent = netReturnPercent]]

\* variant: the early exit returns an empty array instead of its input
applyFees_emptyOnExit(returns, yearlyFeePercent) ==
  IF Len(returns) = 0 \/ yearlyFeePercent = 0 THEN << >>
  ELSE LET dailyFeeRate == Div(Div(Num(yearlyFeePercent), Num(100)), Num(365))
       IN  [k \in 1 .. Len(returns) |->
             LET index == k - 1
                 feeMultiplier == Pow(Sub(Num(1), dailyFeeRate), index)
                 grossReturn ==
                   Add(Num(1), Div(returns[k].returnPercent, Num(100)))
                 netReturn == Mul(grossReturn, feeMultiplier)
                 netReturnPercent == Mul(Sub(netReturn, Num(1)), Num(100))
             IN  [returns[k] EXCEPT !.returnPercent = netReturnPercent]]

applyFees(returns, yearlyFeePercent) ==
  IF Len(returns) = 0 \/ yearlyFeePercent = 0 THEN returns
  ELSE LET dailyFeeRate == Div(Div(Num(yearlyFeePercent), Num(100)), Num(365))
       IN  [k \in 1 .. Len(returns) |->
             LET index == k - 1
                 feeMultiplier == Pow(Sub(Num(1), dailyFeeRate), index)
                 grossReturn ==
                   Add(Num(1), Div(returns[k].returnPercent, Num(100)))
                 netReturn == Mul(grossReturn, feeMultiplier)
                 netReturnPercent == Mul(Sub(netReturn, Num(1)), Num(100))
             IN  [returns[k] EXCEPT !.returnPercent = netReturnPercent]]

\* returns[rebaseIndex] is undefined and reading .returnPercent of it throws
rebaseReturnsThrows(returns, rebaseIndex) == rebaseIndex \notin Indices(returns)

\* variant: the base is always the first point
rebaseReturns_firstPoint(returns, rebaseIndex) ==
  LET baseReturn == At(returns, 0).returnPercent
      baseFactor == Add(Num(1), Div(baseReturn, Num(100)))
  IN  [k \in 1 .. Len(returns) |->
        LET point == returns[k]
            rebased ==
              Mul(Sub(Div(Add(Num(1), Div(point.returnPercent, Num(100))),
                          baseFactor), Num(1)), Num(100))
            rebasedSMA ==
              IF point.smaReturnPercent # Undefined
                THEN Mul(Sub(Div(Add(Num(1),
                                     Div(point.smaReturnPercent, Num(100))),
                                 baseFactor), Num(1)), Num(100))
              ELSE Undefined
        IN  [point EXCEPT !.returnPercent = rebased,
                          !.smaReturnPercent = rebasedSMA]]

\* variant: additive rebasing, newReturn = R - Rbase
rebaseReturns_additive(returns, rebaseIndex) ==
  LET baseReturn == At(returns, rebaseIndex).returnPercent
  IN  [k \in 1 .. Len(returns) |->
        LET point == returns[k]
            rebased == Sub(point.returnPercent, baseReturn)
            rebasedSMA ==
              IF point.smaReturnPercent # Undefined
                THEN Sub(point.smaReturnPercent, baseReturn)
              ELSE Undefined
        IN  [point EXCEPT !.returnPercent = rebased,
                          !.smaReturnPercent = rebasedSMA]]

\* variant: the rebased SMA is computed from point.returnPercent
rebaseReturns_smaFromReturn(returns, rebaseIndex) ==
  LET baseReturn == At(returns, rebaseIndex).returnPercent
      baseFactor == Add(Num(1), Div(baseReturn, Num(100)))
  IN  [k \in 1 .. Len(returns) |->
        LET point == returns[k]
            rebased ==
              Mul(Sub(Div(Add(Num(1), Div(point.returnPercent, Num(100))),
                          baseFactor), Num(1)), Num(100))
            rebasedSMA ==
              IF point.smaReturnPercent # Undefined
                THEN rebased
              ELSE Undefined
        IN  [point EXCEPT !.returnPercent = rebased,
                          !.smaReturnPercent = rebasedSMA]]

rebaseReturns(returns, rebaseIndex) ==
  LET baseReturn == At(returns, rebaseIndex).returnPercent
      baseFactor == Add(Num(1), Div(baseReturn, Num(100)))
  IN  [k \in 1 .. Len(returns) |->
        LET point == returns[k]
            rebased ==
              Mul(Sub(Div(Add(Num(1), Div(point.returnPercent, Num(100))),
                          baseFactor), Num(1)), Num(100))
            rebasedSMA ==
              IF point.smaReturnPercent # Undefined
                THEN Mul(Sub(Div(Add(Num(1),
                                     Div(point.smaReturnPercent, Num(100))),
                                 baseFactor), Num(1)), Num(100))
              ELSE Undefined
        IN  [point EXCEPT !.returnPercent = rebased,
                          !.smaReturnPercent = rebasedSMA]]

FeeOf(fees, symbol) == IF symbol \in DOMAIN fees THEN fees[symbol] ELSE 0

\* variant: the warm-up is one point shorter than the window
warmupSizeOf_short(returns, smaWindow) == Min(smaWindow - 1, Len(returns) - 1)

warmupSizeOf(returns, smaWindow) == Min(smaWindow, Len(returns) - 1)

\* the body of the assets.map callback of processPortfolioReturns
processAssetThrows(asset, fees, smaWindow) ==
  LET rawReturns == calculateReturns(asset.data, 0)
      adjustedReturns == applyFees(rawReturns, FeeOf(fees, asset.symbol))
      withSMA == calculateSMA(adjustedReturns, smaWindow)
  IN  smaWindow > 0
      /\ rebaseReturnsThrows(withSMA, warmupSizeOf(withSMA, smaWindow))

\* variant: the SMA is computed on the raw returns, before the fees
processAsset_smaBeforeFees(asset, fees, smaWindow) ==
  LET rawReturns == calculateReturns(asset.data, 0)
      feePercent == FeeOf(fees, asset.symbol)
      adjustedReturns == applyFees(rawReturns, feePercent)
  IN  IF smaWindow <= 0
        THEN [symbol |-> asset.symbol, returns |-> adjustedReturns]
      ELSE LET withSMA == applyFees(calculateSMA(rawReturns, smaWindow),
                                    feePercent)
               warmupSize == warmupSizeOf(withSMA, smaWindow)
               rebased == rebaseReturns(withSMA, warmupSize)
               visible == Slice(rebased, warmupSize, Len(rebased))
           IN  [symbol |-> asset.symbol, returns |-> visible]

\* variant: the SMA is computed on the trimmed slice only
processAsset_smaAfterTrim(asset, fees, smaWindow) ==
  LET rawReturns == calculateReturns(asset.data, 0)
      feePercent == FeeOf(fees, asset.symbol)
      adjustedReturns == applyFees(rawReturns, feePercent)
  IN  IF smaWindow <= 0
        THEN [symbol |-> asset.symbol, returns |-> adjustedReturns]
      ELSE LET warmupSize == warmupSizeOf(adjustedReturns, smaWindow)
               rebased == rebaseReturns(adjustedReturns, warmupSize)
               visible == Slice(rebased, warmupSize, Len(rebased))
           IN  [symbol |-> asset.symbol,
                returns |-> calculateSMA(visible, smaWindow)]

processAsset(asset, fees, smaWindow) ==
  LET rawReturns == calculateReturns(asset.data, 0)
      feePercent == FeeOf(fees, asset.symbol)
      adjustedReturns == applyFees(rawReturns, feePercent)
  IN  IF smaWindow <= 0
        THEN [symbol |-> asset.symbol, returns |-> adjustedReturns]
      ELSE LET withSMA == calculateSMA(adjustedReturns, smaWindow)
               warmupSize == warmupSizeOf(withSMA, smaWindow)
               rebased == rebaseReturns(withSMA, warmupSize)
               visible == Slice(rebased, warmupSize, Len(rebased))
           IN  [symbol |-> asset.symbol, returns |-> visible]

processPortfolioReturnsThrows(as, fees, smaWindow) ==
  \E i \in 1 .. Len(as) : processAssetThrows(as[i], fees, smaWindow)

processPortfolioReturns(as, fees, smaWindow) ==
  [i \in 1 .. Len(as) |-> processAsset(as[i], fees, smaWindow)]

\* collections of the first n catalogue assets, each with a fetched series
AssetCollections ==
  UNION { { [i \in 1 .. n |-> [symbol |-> PORTFOLIO_ASSETS[i], data |-> d[i]]]
            : d \in [1 .. n -> PriceSeries] }
          : n \in 0 .. Len(PORTFOLIO_ASSETS) }

\* fee records: a fee for every symbol of the collection, or no key at all
FeeRecords(as) ==
  [ {as[i].symbol : i \in 1 .. Len(as)} -> FeeValues ] \cup { << >> }

\* collections of the first n compared assets, each with a fetched series
ComparedCollections ==
  UNION { { [i \in 1 .. n |-> [symbol |-> ComparedSymbols[i], data |-> d[i]]]
            : d \in [1 .. n -> ComparedSeries] }
          : n \in 0 .. Len(ComparedSymbols) }

(* ------------------------ the chart merger ---------------------------- *)
\* variant: the value is cut down to the multiple of 0.01 below it
ToFixed2_floor(x) ==
  IF ~IsFinite(x) THEN x
  ELSE Rat((x.n * 100 - ((x.n * 100) % x.d)) \div x.d, 100)

\* Number(x.toFixed(2)): the nearest multiple of 0.01, a half going away from 0
ToFixed2(x) ==
  IF ~IsFinite(x) THEN x
  ELSE Rat(Sign(x.n) * ((2 * Abs(x.n) * 100 + x.d) \div (2 * x.d)), 100)

RECURSIVE AllPoints(_)
\* the points in the order of the two nested forEach loops
AllPoints(portfolioReturns) ==
  IF portfolioReturns = << >> THEN << >>
  ELSE [k \in 1 .. Len(portfolioReturns[1].returns) |->
          [symbol |-> portfolioReturns[1].symbol,
           point |-> portfolioReturns[1].returns[k]]]
       \o AllPoints(Tail(portfolioReturns))

EmptyMaps ==
  [dates |-> << >>, returnsByDate |-> << >>, pricesByDate |-> << >>,
   smaByDate |-> << >>, timestampByDate |-> << >>]

\* the body of the inner forEach: one point entered into the four maps
\* (dates is the insertion order of the keys of returnsByDate)
EnterPoint(maps, symbol, point) ==
  LET m == IF point.date \in DOMAIN maps.returnsByDate THEN maps
           ELSE [dates |-> Append(maps.dates, point.date),
                 returnsByDate |-> (point.date :> << >>) @@ maps.returnsByDate,
                 pricesByDate |-> (point.date :> << >>) @@ maps.pricesByDate,
                 smaByDate |-> (point.date :> << >>) @@ maps.smaByDate,
                 timestampByDate |->
                   (point.date :> point.timestamp) @@ maps.timestampByDate]
      withReturn ==
        (point.date :> ((symbol :> ToFixed2(point.returnPercent))
                        @@ m.returnsByDate[point.date])) @@ m.returnsByDate
      withPrice ==
        (point.date :> ((symbol :> point.price) @@ m.pricesByDate[point.date]))
        @@ m.pricesByDate
      withSma ==
        IF point.smaReturnPercent # Undefined
          THEN (point.date :> ((symbol :> ToFixed2(point.smaReturnPercent))
                               @@ m.smaByDate[point.date])) @@ m.smaByDate
        ELSE m.smaByDate
  IN  [m EXCEPT !.returnsByDate = withReturn, !.pricesByDate = withPrice,
                !.smaByDate = withSma]

RECURSIVE BuildMaps(_, _)
BuildMaps(maps, points) ==
  IF points = << >> THEN maps
  ELSE BuildMaps(EnterPoint(maps, points[1].symbol, points[1].point),
                 Tail(points))

RECURSIVE InsertByTimestamp_descending(_, _, _)
\* variant: the comparator is b - a
InsertByTimestamp_descending(sorted, date, timestampByDate) ==
  IF sorted = << >> THEN <<date>>
  ELSE IF timestampByDate[sorted[Len(sorted)]] >= timestampByDate[date]
    THEN Append(sorted, date)
  ELSE Append(InsertByTimestamp_descending(SubSeq(sorted, 1, Len(sorted) - 1),
                                           date, timestampByDate),
              sorted[Len(sorted)])

RECURSIVE InsertByTimestamp(_, _, _)
\* date put after every date whose timestamp is not larger (a stable sort)
InsertByTimestamp(sorted, date, timestampByDate) ==
  IF sorted = << >> THEN <<date>>
  ELSE IF timestampByDate[sorted[Len(sorted)]] <= timestampByDate[date]
    THEN Append(sorted, date)
  ELSE Append(InsertByTimestamp(SubSeq(sorted, 1, Len(sorted) - 1), date,
                                timestampByDate),
              sorted[Len(sorted)])

RECURSIVE SortByTimestamp(_, _)
SortByTimestamp(dates, timestampByDate) ==
  IF dates = << >> THEN << >>
  ELSE InsertByTimestamp(
         SortByTimestamp(SubSeq(dates, 1, Len(dates) - 1), timestampByDate),
         dates[Len(dates)], timestampByDate)

\* a chart row: the keys S, S_price and S_sma are kept by family
ChartRow(maps, date) ==
  [date |-> date,
   timestamp |-> maps.timestampByDate[date],
   returns |-> maps.returnsByDate[date],
   prices |-> maps.pricesByDate[date],
   sma |-> maps.smaByDate[date]]

\* variant: a date is kept when some asset has a point on it
OnEveryAsset_onSomeAsset(maps, assetSymbols, date) ==
  \E symbol \in assetSymbols : symbol \in DOMAIN maps.returnsByDate[date]

\* assetSymbols.every((symbol) => symbol in returns)
OnEveryAsset(maps, assetSymbols, date) ==
  \A symbol \in assetSymbols : symbol \in DOMAIN maps.returnsByDate[date]

mergeReturnsForChart(portfolioReturns) ==
  IF Len(portfolioReturns) = 0 THEN << >>
  ELSE LET maps == BuildMaps(EmptyMaps, AllPoints(portfolioReturns))
           allDates == SortByTimestamp(maps.dates, maps.timestampByDate)
           assetSymbols ==
             {portfolioReturns[i].symbol : i \in 1 .. Len(portfolioReturns)}
           Kept(date) == OnEveryAsset(maps, assetSymbols, date)
           kept == SelectSeq(allDates, Kept)
       IN  [k \in 1 .. Len(kept) |-> ChartRow(maps, kept[k])]

(* ------------------------ local constants ----------------------------- *)
\* const v = value; ... : the value is computed once and then named
Bind(value, In(_)) == CHOOSE r \in {In(v) : v \in {value}} : TRUE

Bind2(a, b, In(_, _)) == CHOOSE r \in {In(u, v) : u \in {a}, v \in {b}} : TRUE

(* ------------------------ square roots -------------------------------- *)
\* A value that went through Math.sqrt is kept as its sign and its square:
\* [sgn, sq] stands for sgn * sqrt(sq).  Products and quotients of such values
\* stay exact, and a value whose square is the square of a rational is turned
\* back into that rational by RealOf.
RECURSIVE ISqrt(_)
\* the largest integer whose square is at most k
ISqrt(k) ==
  IF k < 2 THEN k
  ELSE LET lo == 2 * ISqrt(k \div 4)
       IN  IF (lo + 1) * (lo + 1) > k THEN lo ELSE lo + 1

\* Math.sqrt: NaN below zero
Sqrt(x) ==
  IF IsNaN(x) \/ x.n < 0 THEN [sgn |-> 0, sq |-> NaN]
  ELSE [sgn |-> Sign(x.n), sq |-> x]

SurdOf(x) == [sgn |-> Sign(x.n), sq |-> Mul(x, x)]

SurdMul(a, b) == [sgn |-> a.sgn * b.sgn, sq |-> Mul(a.sq, b.sq)]

SurdDiv(a, b) ==
  [sgn |-> IF b.sgn = 0 THEN a.sgn ELSE a.sgn * b.sgn, sq |-> Div(a.sq, b.sq)]

SurdIsZero(a) == StrictEq(a.sq, Num(0))

SurdIsFinite(a) == IsFinite(a.sq)

\* Math.abs(a) < Math.abs(b)
AbsLess(a, b) == Less(a.sq, b.sq)

RealOf(a) ==
  IF IsNaN(a.sq) THEN NaN
  ELSE IF ~IsFinite(a.sq) THEN Rat(a.sgn, 0)
  ELSE Rat(a.sgn * ISqrt(a.sq.n), ISqrt(a.sq.d))

(* ------------------------ correlations -------------------------------- *)
RECURSIVE Sum(_)
\* reduce((a, b) => a + b, 0) and the += loops
Sum(x) == IF x = << >> THEN Num(0) ELSE Add(Sum(SubSeq(x, 1, Len(x) - 1)), x[Len(x)])

\* the day-over-day simple returns of a cumulative return series
dailyReturns(returns) ==
  [i \in 1 .. (IF Len(returns) = 0 THEN 0 ELSE Len(returns) - 1) |->
     LET prev == Add(Num(1), Div(At(returns, i - 1).returnPercent, Num(100)))
         curr == Add(Num(1), Div(At(returns, i).returnPercent, Num(100)))
     IN  IF Less(Num(0), prev) THEN Sub(Div(curr, prev), Num(1)) ELSE Num(0)]

\* variant: the quotient is not put under the square root
pearsonCorrelation_noRoot(x0, y0) ==
  Bind2(x0, y0, LAMBDA x, y :
    LET n == Len(x)
        sumX == Sum(x)
        sumY == Sum(y)
        sumXY == Sum([i \in 1 .. n |-> Mul(x[i], y[i])])
        sumX2 == Sum([i \in 1 .. n |-> Mul(x[i], x[i])])
        sumY2 == Sum([i \in 1 .. n |-> Mul(y[i], y[i])])
        denom == SurdOf(Mul(Sub(Mul(Num(n), sumX2), Mul(sumX, sumX)),
                            Sub(Mul(Num(n), sumY2), Mul(sumY, sumY))))
    IN  IF n = 0 THEN SurdOf(Num(0))
        ELSE IF SurdIsZero(denom) THEN SurdOf(Num(0))
        ELSE SurdDiv(SurdOf(Sub(Mul(Num(n), sumXY), Mul(sumX, sumY))), denom))

\* variant: no test of a zero denominator
pearsonCorrelation_unguarded(x0, y0) ==
  Bind2(x0, y0, LAMBDA x, y :
    LET n == Len(x)
        sumX == Sum(x)
        sumY == Sum(y)
        sumXY == Sum([i \in 1 .. n |-> Mul(x[i], y[i])])
        sumX2 == Sum([i \in 1 .. n |-> Mul(x[i], x[i])])
        sumY2 == Sum([i \in 1 .. n |-> Mul(y[i], y[i])])
        denom == Sqrt(Mul(Sub(Mul(Num(n), sumX2), Mul(sumX, sumX)),
                          Sub(Mul(Num(n), sumY2), Mul(sumY, sumY))))
    IN  IF n = 0 THEN SurdOf(Num(0))
        ELSE SurdDiv(SurdOf(Sub(Mul(Num(n), sumXY), Mul(sumX, sumY))), denom))

pearsonCorrelation(x0, y0) ==
  Bind2(x0, y0, LAMBDA x, y :
    LET n == Len(x)
        sumX == Sum(x)
        sumY == Sum(y)
        sumXY == Sum([i \in 1 .. n |-> Mul(x[i], y[i])])
        sumX2 == Sum([i \in 1 .. n |-> Mul(x[i], x[i])])
        sumY2 == Sum([i \in 1 .. n |-> Mul(y[i], y[i])])
        denom == Sqrt(Mul(Sub(Mul(Num(n), sumX2), Mul(sumX, sumX)),
                          Sub(Mul(Num(n), sumY2), Mul(sumY, sumY))))
    IN  IF n = 0 THEN SurdOf(Num(0))
        ELSE IF SurdIsZero(denom) THEN SurdOf(Num(0))
        ELSE SurdDiv(SurdOf(Sub(Mul(Num(n), sumXY), Mul(sumX, sumY))), denom))

stdDev(x0) ==
  Bind(x0, LAMBDA x :
    LET n == Len(x)
    IN  IF n = 0 THEN SurdOf(Num(0))
        ELSE Bind(Div(Sum(x), Num(n)), LAMBDA mean :
               Sqrt(Div(Sum([i \in 1 .. n |->
                               Mul(Sub(x[i], mean), Sub(x[i], mean))]),
                        Num(n)))))

RECURSIVE DailyPoints_earlierDate(_)
\* variant: a daily return is keyed by the date of the point it starts from
DailyPoints_earlierDate(data) ==
  IF data = << >> THEN << >>
  ELSE LET dr == dailyReturns(data[1].returns)
       IN  [i \in 1 .. Len(dr) |->
              [symbol |-> data[1].symbol,
               date |-> At(data[1].returns, i - 1).date,
               value |-> dr[i]]]
           \o DailyPoints_earlierDate(Tail(data))

RECURSIVE DailyPoints(_)
\* the daily returns in the order of the loops that fill dateMap, each with
\* the date of the point it leads to
DailyPoints(data) ==
  IF data = << >> THEN << >>
  ELSE LET dr == dailyReturns(data[1].returns)
       IN  [i \in 1 .. Len(dr) |->
              [symbol |-> data[1].symbol,
               date |-> At(data[1].returns, i).date,
               value |-> dr[i]]]
           \o DailyPoints(Tail(data))

RECURSIVE BuildDateMap(_, _)
\* dateMap with the insertion order of its keys
BuildDateMap(m, points) ==
  IF points = << >> THEN m
  ELSE LET p == points[1]
           known == p.date \in DOMAIN m.dateMap
           row == IF known THEN m.dateMap[p.date] ELSE << >>
       IN  BuildDateMap(
             [dates |-> IF known THEN m.dates ELSE Append(m.dates, p.date),
              dateMap |-> (p.date :> ((p.symbol :> p.value) @@ row)) @@ m.dateMap],
             Tail(points))

dateMapOf(data) ==
  BuildDateMap([dates |-> << >>, dateMap |-> << >>], DailyPoints(data))

symbolsOf(data) == {data[i].symbol : i \in 1 .. Len(data)}

\* the dates for which every asset has a daily return
commonDatesOf(m, symbols) ==
  LET OnAll(date) == \A sym \in symbols : sym \in DOMAIN m.dateMap[date]
  IN  SelectSeq(m.dates, OnAll)

\* variant: every asset keeps its own daily returns, on its own dates
alignedReturnsOf_unaligned(m, commonDates, symbols) ==
  [sym \in symbols |->
     LET Own(date) == sym \in DOMAIN m.dateMap[date]
         ownDates == SelectSeq(m.dates, Own)
     IN  [k \in 1 .. Len(ownDates) |-> m.dateMap[ownDates[k]][sym]]]

alignedReturnsOf(m, commonDates, symbols) ==
  [sym \in symbols |->
     [k \in 1 .. Len(commonDates) |-> m.dateMap[commonDates[k]][sym]]]

stdsOf(alignedReturns) ==
  [sym \in DOMAIN alignedReturns |-> stdDev(alignedReturns[sym])]

\* w * w * sd * sd
assetVarianceOf(w, stds) ==
  [sym \in DOMAIN stds |->
     Mul(Mul(w, w), RealOf(SurdMul(stds[sym], stds[sym])))]

\* cov = corr * stds[a] * stds[b]; pairVariance = 2 * w * w * cov
pairVarianceOf(w, corr, stdA, stdB) ==
  Mul(Mul(Mul(Num(2), w), w), RealOf(SurdMul(SurdMul(corr, stdA), stdB)))

\* the index pairs i < j in the order of the nested loops
IndexPairs(n) ==
  LET Before(p, q) == p[1] < q[1] \/ (p[1] = q[1] /\ p[2] < q[2])
      S == {p \in (1 .. n) \X (1 .. n) : p[1] < p[2]}
  IN  [k \in 1 .. Cardinality(S) |->
         CHOOSE p \in S : Cardinality({q \in S : Before(q, p)}) = k - 1]

\* the pairs as pushed by the nested loops, before normalisation
rawPairsOf(data, w, alignedReturns, stds, assetVariance) ==
  LET ij == IndexPairs(Len(data))
  IN  [k \in 1 .. Len(ij) |->
         LET a == data[ij[k][1]].symbol
             b == data[ij[k][2]].symbol
         IN  Bind(pearsonCorrelation(alignedReturns[a], alignedReturns[b]),
                  LAMBDA corr :
               [symbolA |-> a,
                symbolB |-> b,
                correlation |-> corr,
                varianceContribution |->
                  pairVarianceOf(w, corr, stds[a], stds[b]),
                varianceA |-> assetVariance[a],
                varianceB |-> assetVariance[b]])]

\* variant: the terms of the pairs are left out of the total
totalVarianceOf_ownTermsOnly(data, assetVariance, rawPairs) ==
  Sum([i \in 1 .. Len(data) |-> assetVariance[data[i].symbol]])

\* the sum of the own terms of all assets and the terms of all pairs
totalVarianceOf(data, assetVariance, rawPairs) ==
  Add(Sum([i \in 1 .. Len(data) |-> assetVariance[data[i].symbol]]),
      Sum([k \in 1 .. Len(rawPairs) |-> rawPairs[k].varianceContribution]))

\* the local constants of calculateCorrelations when it reaches line 320
correlationLocals(data) ==
  Bind2(Div(Num(1), Num(Len(data))), dateMapOf(data), LAMBDA w, m :
    Bind(commonDatesOf(m, symbolsOf(data)), LAMBDA commonDates :
      Bind(alignedReturnsOf(m, commonDates, symbolsOf(data)),
           LAMBDA alignedReturns :
        Bind(stdsOf(alignedReturns), LAMBDA stds :
          Bind(assetVarianceOf(w, stds), LAMBDA assetVariance :
            Bind(rawPairsOf(data, w, alignedReturns, stds, assetVariance),
                 LAMBDA rawPairs :
              [dateMap |-> m.dateMap,
               commonDates |-> commonDates,
               alignedReturns |-> alignedReturns,
               stds |-> stds,
               pairs |-> rawPairs,
               totalVariance |->
                 totalVarianceOf(data, assetVariance, rawPairs)]))))))

\* variant: the division is made whenever the total is not negative
normalised_zeroTotal(rawPairs0, totalVariance0) ==
  Bind2(rawPairs0, totalVariance0, LAMBDA rawPairs, totalVariance :
    IF LessEq(Num(0), totalVariance)
      THEN [k \in 1 .. Len(rawPairs) |->
              [rawPairs[k] EXCEPT
                 !.varianceContribution = Mul(Div(@, totalVariance), Num(100)),
                 !.varianceA = Mul(Div(@, totalVariance), Num(100)),
                 !.varianceB = Mul(Div(@, totalVariance), Num(100))]]
    ELSE rawPairs)

\* the contributions as percentages of the total, when it is positive
normalised(rawPairs0, totalVariance0) ==
  Bind2(rawPairs0, totalVariance0, LAMBDA rawPairs, totalVariance :
    IF Less(Num(0), totalVariance)
      THEN [k \in 1 .. Len(rawPairs) |->
              [rawPairs[k] EXCEPT
                 !.varianceContribution = Mul(Div(@, totalVariance), Num(100)),
                 !.varianceA = Mul(Div(@, totalVariance), Num(100)),
                 !.varianceB = Mul(Div(@, totalVariance), Num(100))]]
    ELSE rawPairs)

RECURSIVE InsertByCorrelation_ascending(_, _)
\* variant: the comparator is Math.abs(a.correlation) - Math.abs(b.correlation)
InsertByCorrelation_ascending(sorted, pair) ==
  IF sorted = << >> THEN <<pair>>
  ELSE IF ~AbsLess(pair.correlation, sorted[Len(sorted)].correlation)
    THEN Append(sorted, pair)
  ELSE Append(InsertByCorrelation_ascending(SubSeq(sorted, 1, Len(sorted) - 1),
                                            pair),
              sorted[Len(sorted)])

RECURSIVE InsertByCorrelation(_, _)
\* pair put after every pair whose |correlation| is not smaller (a stable sort)
InsertByCorrelation(sorted, pair) ==
  IF sorted = << >> THEN <<pair>>
  ELSE IF ~AbsLess(sorted[Len(sorted)].correlation, pair.correlation)
    THEN Append(sorted, pair)
  ELSE Append(InsertByCorrelation(SubSeq(sorted, 1, Len(sorted) - 1), pair),
              sorted[Len(sorted)])

RECURSIVE SortByCorrelation(_)
SortByCorrelation(ps) ==
  IF ps = << >> THEN << >>
  ELSE InsertByCorrelation(SortByCorrelation(SubSeq(ps, 1, Len(ps) - 1)),
                           ps[Len(ps)])

calculateCorrelations(data) ==
  IF Len(data) < 2 THEN << >>
  ELSE Bind(correlationLocals(data), LAMBDA l :
         Bind(normalised(l.pairs, l.totalVariance),
              LAMBDA ps : SortByCorrelation(ps)))

(* ------------------------ arrays as objects --------------------------- *)
\* The arrays a call can reach from its argument, then the arrays it
\* allocates, in allocation order: a reference to an array is its index in
\* `cells`. An array holds its own element objects, so a write to
\* a field of an element is a change of the cell of its array.

\* a new array holding `elements`: an array literal, or the result of
\* map, slice, filter or Array.from
Allocate(cells, elements) ==
  [cells |-> Append(cells, elements), ref |-> Len(cells) + 1]

\* the heap after a call on the array `argument` that ended as `returned`
Called(argument, returned) ==
  [cells |-> returned.cells, argument |-> argument, result |-> returned.ref]

\* the heap after a call on the array `argument` that threw
Thrown(cells, argument) ==
  [cells |-> cells, argument |-> argument, result |-> 0]

calculateReturnsAt(cells, priceData, startIndex) ==
  Allocate(cells, calculateReturns(cells[priceData], startIndex))

calculateSMAAt(cells, returns, window) ==
  Allocate(cells, calculateSMA(cells[returns], window))

\* variant: the net returns are written into the points of the argument
applyFeesAt_inPlace(cells, returns, yearlyFeePercent) ==
  [cells |-> [cells EXCEPT ![returns] = applyFees(cells[returns],
                                                  yearlyFeePercent)],
   ref |-> returns]

applyFeesAt(cells, returns, yearlyFeePercent) ==
  IF Len(cells[returns]) = 0 \/ yearlyFeePercent = 0
    THEN [cells |-> cells, ref |-> returns]
  ELSE Allocate(cells, applyFees(cells[returns], yearlyFeePercent))

rebaseReturnsAt(cells, returns, rebaseIndex) ==
  Allocate(cells, rebaseReturns(cells[returns], rebaseIndex))

\* the body of the assets.map callback: the heap after it and the
\* PortfolioReturnData object it returns
processAssetAt(cells, asset, fees, smaWindow) ==
  Bind(calculateReturnsAt(cells, asset.data, 0), LAMBDA rawReturns :
  Bind(applyFeesAt(rawReturns.cells, rawReturns.ref,
                   FeeOf(fees, asset.symbol)), LAMBDA adjustedReturns :
    IF smaWindow <= 0
      THEN [cells |-> adjustedReturns.cells,
            value |-> [symbol |-> asset.symbol,
                       returns |-> adjustedReturns.ref]]
    ELSE
  Bind(calculateSMAAt(adjustedReturns.cells, adjustedReturns.ref,
                      smaWindow), LAMBDA withSMA :
  Bind(warmupSizeOf(withSMA.cells[withSMA.ref], smaWindow),
       LAMBDA warmupSize :
  Bind(rebaseReturnsAt(withSMA.cells, withSMA.ref, warmupSize),
       LAMBDA rebased :
  Bind(Allocate(rebased.cells,
                Slice(rebased.cells[rebased.ref], warmupSize,
                      Len(rebased.cells[rebased.ref]))), LAMBDA visible :
    [cells |-> visible.cells,
     value |-> [symbol |-> asset.symbol, returns |-> visible.ref]]))))))

\* assets.map: the callback on every asset in order, then the array of results
RECURSIVE MapAssetsAt(_, _, _, _, _)
MapAssetsAt(cells, as, fees, smaWindow, mapped) ==
  IF Len(mapped) = Len(as) THEN Allocate(cells, mapped)
  ELSE \* one local value per callback
       CHOOSE r \in { MapAssetsAt(done.cells, as, fees, smaWindow,
                                  Append(mapped, done.value))
                      : done \in { processAssetAt(cells, as[Len(mapped) + 1],
                                                  fees, smaWindow) } } : TRUE

processPortfolioReturnsAt(cells, assets, fees, smaWindow) ==
  MapAssetsAt(cells, cells[assets], fees, smaWindow, << >>)

\* the heap holding a fetched collection: the price series of the assets, then
\* the array of the asset objects
AssetCells(as) ==
  [i \in 1 .. Len(as) + 1 |->
     IF i <= Len(as) THEN as[i].data
     ELSE [k \in 1 .. Len(as) |-> [symbol |-> as[k].symbol, data |-> k]]]

\* the heap holding a PortfolioReturnData[]: the return series of the assets,
\* then the array of the PortfolioReturnData objects
ReturnDataCells(data) ==
  [i \in 1 .. Len(data) + 1 |->
     IF i <= Len(data) THEN data[i].returns
     ELSE [k \in 1 .. Len(data) |-> [symbol |-> data[k].symbol,
                                     returns |-> k]]]

\* the PortfolioAsset[] behind a reference, price series included
PortfolioAssetsOf(cells, assets) ==
  [k \in 1 .. Len(cells[assets]) |->
     [symbol |-> cells[assets][k].symbol,
      data |-> cells[cells[assets][k].data]]]

\* the PortfolioReturnData[] behind a reference, return series included
PortfolioReturnDataOf(cells, data) ==
  [k \in 1 .. Len(cells[data]) |->
     [symbol |-> cells[data][k].symbol,
      returns |-> cells[cells[data][k].returns]]]

\* the maps, the sorted dates and the rows are all new objects
mergeReturnsForChartAt(cells, portfolioReturns) ==
  Allocate(cells,
           mergeReturnsForChart(PortfolioReturnDataOf(cells, portfolioReturns)))

\* the maps and `pairs` are new objects; the writes of lines 323-325 and the
\* sort of line 330 are on `pairs`
calculateCorrelationsAt(cells, data) ==
  Allocate(cells, calculateCorrelations(PortfolioReturnDataOf(cells, data)))

(* ------------------------ polygon news function ----------------------- *)
\* Date.now() advances in ticks of half the cache lifetime
MaxTicks == 4

TickMs == 150000

CACHE_TTL_MS == 5 * 60000

MAX_CACHE_ENTRIES == 20

\* the ticker and limit query parameters a client sends ("" : not sent)
NewsTickers == {"", "MSTR"}

NewsLimits == {"", "10"}

\* the results of a parsed upstream answer
NewsResults == {"none", "articles"}

\* status of an upstream answer that is not ok
UpstreamErrors == {429}

\* before the first cold start no module state exists
NoContainer ==
  [pc |-> "cold", API_KEY |-> FALSE, cache |-> << >>, ticks |-> 0,
   cacheKey |-> "", now |-> 0, upstream |-> "none",
   outcome |-> [kind |-> "none"]]

\* `${ticker}|${limit}` after the defaults of lines 39 and 40
cacheKeyOf(ticker, limit) ==
  ticker \o "|" \o (IF limit = "" THEN "10" ELSE limit)

Resolved(statusCode, xCache, body) ==
  [kind |-> "resolved", statusCode |-> statusCode, xCache |-> xCache,
   body |-> body]

Rejected(error) == [kind |-> "rejected", error |-> error]

\* cached && now - cached.timestamp < CACHE_TTL_MS
IsFresh(cache, cacheKey, now) ==
  /\ cacheKey \in DOMAIN cache
  /\ now - cache[cacheKey].timestamp < CACHE_TTL_MS

\* the entry with the smallest timestamp is deleted once the cache holds more
\* than MAX_CACHE_ENTRIES keys
Evict(cache) ==
  IF Cardinality(DOMAIN cache) > MAX_CACHE_ENTRIES
    THEN LET oldest == CHOOSE k \in DOMAIN cache :
                         \A j \in DOMAIN cache :
                           cache[k].timestamp <= cache[j].timestamp
         IN  [k \in DOMAIN cache \ {oldest} |-> cache[k]]
  ELSE cache

\* cache.set(cacheKey, { data, timestamp })
CacheSet(cache, cacheKey, data, timestamp) ==
  [k \in DOMAIN cache \cup {cacheKey} |->
     IF k = cacheKey THEN [data |-> data, timestamp |-> timestamp]
     ELSE cache[k]]

\* the names the catch block of lines 161-184 can read: its parameter, the
\* handler's parameter and the module's constants. `cached` and `now` are
\* const declarations of the try block (lines 44, 45) and end with it.
CatchScope ==
  {"error", "event", "POLYGON_API", "BLOB_STORE", "API_KEY", "cache",
   "CACHE_TTL_MS", "MAX_CACHE_ENTRIES", "corsHeaders"}

\* variant: `cached` is declared before the try statement
CatchBlock_cachedInScope(cache, cacheKey) ==
  IF cacheKey \in DOMAIN cache
    THEN Resolved(200, "STALE", cache[cacheKey].data)
  ELSE Resolved(502, "none", [error |-> "502 Bad Gateway", results |-> "none"])

\* the catch block: `if (cached)` reads a name that is not declared there
CatchBlock(cache, cacheKey) ==
  IF "cached" \notin CatchScope THEN Rejected("ReferenceError")
  ELSE IF cacheKey \in DOMAIN cache
    THEN Resolved(200, "STALE", cache[cacheKey].data)
  ELSE Resolved(502, "none", [error |-> "502 Bad Gateway", results |-> "none"])

(* ------------------------ tokenStore ----------------------------------- *)
\* getToken calls of one container
MaxGets == 2

\* Date.now() in ticks
MaxAuthTicks == 3

\* lifetime of a stored token in ticks (expiresIn)
TokenLifetime == 2

GetCalls == 1 .. MaxGets

\* a token record as setToken writes it (lines 127-132)
TokenData(accessToken, now) ==
  [accessToken |-> accessToken, refreshToken |-> TRUE,
   expiresAt |-> now + TokenLifetime]

\* what store.get answers when the key is absent
NoData == [accessToken |-> "null", refreshToken |-> FALSE, expiresAt |-> 0]

NoCall == [pc |-> "idle", data |-> NoData, result |-> "none",
           afterClear |-> FALSE]

\* a cold container after a login: the session is in the blob store, the
\* in-memory cache is empty (lines 16, 17)
ColdTokenStore ==
  [blob |-> TokenData("t1", 0),
   cachedToken |-> "null", cacheExpiry |-> 0,
   ticks |-> 0,
   gets |-> [i \in GetCalls |-> NoCall],
   clear |-> [pc |-> "idle", result |-> "none"],
   refreshed |-> FALSE]

\* cachedToken && cacheExpiry && Date.now() < cacheExpiry (line 85)
CacheIsValid(a) ==
  a.cachedToken # "null" /\ a.cacheExpiry # 0 /\ a.ticks < a.cacheExpiry

\* data.expiresAt && Date.now() > data.expiresAt (line 100)
IsExpired(data, now) == data.expiresAt # 0 /\ now > data.expiresAt

\* variant: the continuation of getToken does not write the cache
getTokenResume_noCacheWrite(a, i) ==
  LET data == a.gets[i].data
  IN  IF data = NoData
        THEN [a EXCEPT !.gets[i].pc = "done", !.gets[i].result = "null"]
      ELSE IF IsExpired(data, a.ticks)
        THEN IF data.refreshToken
               THEN [a EXCEPT !.gets[i].pc = "refreshing"]
             ELSE [a EXCEPT !.gets[i].pc = "done", !.gets[i].result = "null"]
      ELSE [a EXCEPT !.gets[i].pc = "done",
                     !.gets[i].result = data.accessToken]

\* getToken after `await store.get` (lines 94-114)
getTokenResume(a, i) ==
  LET data == a.gets[i].data
  IN  IF data = NoData
        THEN [a EXCEPT !.gets[i].pc = "done", !.gets[i].result = "null"]
      ELSE IF IsExpired(data, a.ticks)
        THEN IF data.refreshToken
               THEN [a EXCEPT !.gets[i].pc = "refreshing"]
             ELSE [a EXCEPT !.gets[i].pc = "done", !.gets[i].result = "null"]
      ELSE [a EXCEPT !.cachedToken = data.accessToken,
                     !.cacheExpiry = data.expiresAt,
                     !.gets[i].pc = "done",
                     !.gets[i].result = data.accessToken]

(* ------------------------ ComparePage ---------------------------------- *)
\* getPortfolioData calls that can be pending at once
MaxInFlight == 2

\* the time ranges of the selector, cut to three of the six
TIME_RANGES == {"1M", "1Y", "5Y"}

SMA_DAYS == 150

\* RANGE_CONFIG[range].smaWindow; 22 is Math.ceil(SMA_DAYS / 7)
getRangeConfig(range) ==
  IF range = "5Y" THEN [smaWindow |-> 22, interval |-> "1week"]
  ELSE [smaWindow |-> SMA_DAYS, interval |-> "1day"]

\* the state of the first render; the effect of lines 47-49 has yet to run.
\* portfolioData is kept as the range it was fetched for ("none": the initial
\* empty array)
MountedPage ==
  [portfolioData |-> "none", loading |-> TRUE, error |-> "null",
   refreshing |-> FALSE, selectedRange |-> "1Y",
   effectPending |-> TRUE, inFlight |-> << >>]

\* the page renders its controls (the early returns of lines 112 and 125 do
\* not apply) and no effect is waiting to run
ControlsShown(p) == ~p.loading /\ p.error = "null" /\ ~p.effectPending

\* fetchData up to `await getPortfolioData(selectedRange)` (lines 32-37)
fetchDataStart(p, isRefresh) ==
  [p EXCEPT !.refreshing = IF isRefresh THEN TRUE ELSE @,
            !.loading = IF isRefresh THEN @ ELSE TRUE,
            !.error = "null",
            !.inFlight = Append(@, p.selectedRange)]

Remove(s, i) == [k \in 1 .. Len(s) - 1 |-> IF k < i THEN s[k] ELSE s[k + 1]]

\* variant: an answer for a range that is no longer selected is dropped
fetchDataSettle_dropStale(p, i, ok) ==
  LET range == p.inFlight[i]
      rest == [p EXCEPT !.inFlight = Remove(@, i)]
  IN  IF range # p.selectedRange THEN rest
      ELSE IF ok THEN [rest EXCEPT !.portfolioData = range,
                                   !.loading = FALSE, !.refreshing = FALSE]
      ELSE [rest EXCEPT !.error = "Failed to fetch data",
                        !.loading = FALSE, !.refreshing = FALSE]

\* fetchData after the await (lines 38-44), for the i-th pending call
fetchDataSettle(p, i, ok) ==
  LET range == p.inFlight[i]
      rest == [p EXCEPT !.inFlight = Remove(@, i)]
  IN  IF ok THEN [rest EXCEPT !.portfolioData = range,
                              !.loading = FALSE, !.refreshing = FALSE]
      ELSE [rest EXCEPT !.error = "Failed to fetch data",
                        !.loading = FALSE, !.refreshing = FALSE]

(* ------------------------ order P&L ------------------------------------ *)
\* filled orders of one account
MaxOrders == 3

OrderSymbols == {"MSTR", "GBTC"}

OrderQuantities == {1, 2}

OrderPrices == {1, 3}

\* the entry of a symbol before its first order (lines 623-635)
NewEntry ==
  [realizedPnL |-> Num(0), totalBought |-> Num(0), totalSold |-> Num(0),
   buyCount |-> 0, sellCount |-> 0,
   totalBuyShares |-> Num(0), totalSellShares |-> Num(0),
   sharesHeld |-> Num(0), costBasis |-> Num(0)]

\* variant: a sale leaves the cost basis as it is
ApplyOrder_costBasisKept(s, order) ==
  LET quantity == Num(order.quantity)
      price == Num(order.price)
      total == Mul(quantity, price)
  IN  IF order.side = "buy"
        THEN [s EXCEPT !.sharesHeld = Add(@, quantity),
                       !.costBasis = Add(@, total),
                       !.totalBought = Add(@, total),
                       !.totalBuyShares = Add(@, quantity),
                       !.buyCount = @ + 1]
      ELSE IF order.side = "sell"
        THEN LET avgCost == IF Less(Num(0), s.sharesHeld)
                              THEN Div(s.costBasis, s.sharesHeld) ELSE Num(0)
                 realizedGain == Mul(Sub(price, avgCost), quantity)
             IN  [s EXCEPT !.realizedPnL = Add(@, realizedGain),
                           !.sharesHeld = Sub(@, quantity),
                           !.totalSold = Add(@, total),
                           !.totalSellShares = Add(@, quantity),
                           !.sellCount = @ + 1]
      ELSE s

\* the body of the loop over the sorted orders (lines 637-655)
ApplyOrder(s, order) ==
  LET quantity == Num(order.quantity)
      price == Num(order.price)
      total == Mul(quantity, price)
  IN  IF order.side = "buy"
        THEN [s EXCEPT !.sharesHeld = Add(@, quantity),
                       !.costBasis = Add(@, total),
                       !.totalBought = Add(@, total),
                       !.totalBuyShares = Add(@, quantity),
                       !.buyCount = @ + 1]
      ELSE IF order.side = "sell"
        THEN LET avgCost == IF Less(Num(0), s.sharesHeld)
                              THEN Div(s.costBasis, s.sharesHeld) ELSE Num(0)
                 realizedGain == Mul(Sub(price, avgCost), quantity)
             IN  [s EXCEPT !.realizedPnL = Add(@, realizedGain),
                           !.costBasis = Sub(@, Mul(avgCost, quantity)),
                           !.sharesHeld = Sub(@, quantity),
                           !.totalSold = Add(@, total),
                           !.totalSellShares = Add(@, quantity),
                           !.sellCount = @ + 1]
      ELSE s

\* symbolMap after one more order: the entry of its symbol is created on its
\* first order
calculateOrderPnLStep(symbolMap, order) ==
  [sym \in DOMAIN symbolMap \cup {order.symbol} |->
     IF sym # order.symbol THEN symbolMap[sym]
     ELSE ApplyOrder(IF sym \in DOMAIN symbolMap THEN symbolMap[sym]
                     ELSE NewEntry,
                     order)]

(* ------------------------ state --------------------------------------- *)
VARIABLES
  call,       \* name of the last function called ("none" before any call;
              \* every behaviour is one chain of calls on one fetched input)
  threw,      \* TRUE iff the last call raised a TypeError
  priceData,  \* price series passed to the last calculateReturns
  arg,        \* numeric argument of the last single-series call
  input,      \* return sequence passed to the last single-series call
  output,     \* return sequence it returned
  rebases,    \* number of rebaseReturns calls applied to the current series
  assets,     \* asset collection passed to the last processPortfolioReturns
  feesArg,    \* its fees record
  smaWindow,  \* its smaWindow
  processed,  \* the PortfolioReturnData[] it returned
  chart,      \* rows returned by the last mergeReturnsForChart
  pairs,      \* CorrelationPair[] returned by the last calculateCorrelations
  heap,       \* the arrays of the last call (those of its argument, then
              \* those it allocated) and the references of its argument and
              \* of its result
  news,       \* the polygon-news function: its container and the invocation
              \* in progress
  auth,       \* tokenStore: the blob store, the in-memory cache and the
              \* getToken and clearToken calls in progress
  page,       \* ComparePage: its React state and the fetches in flight
  orders      \* calculateOrderPnL: the filled orders processed so far, oldest
              \* first, and the symbolMap after them

vars == <<call, threw, priceData, arg, input, output, rebases,
          assets, feesArg, smaWindow, processed, chart, pairs, heap,
          news, auth, page, orders>>

\* the state of the portfolio calculations
calculationVars == <<call, threw, priceData, arg, input, output, rebases,
                     assets, feesArg, smaWindow, processed, chart, pairs, heap>>

\* the state of the serverless functions and of the pages
serviceVars == <<news, auth, page, orders>>

Init ==
  /\ call = "none"
  /\ threw = FALSE
  /\ priceData = << >>
  /\ arg = 0
  /\ input = << >>
  /\ output = << >>
  /\ rebases = 0
  /\ assets = << >>
  /\ feesArg = << >>
  /\ smaWindow = 0
  /\ processed = << >>
  /\ chart = << >>
  /\ pairs = << >>
  /\ heap = [cells |-> << >>, argument |-> 0, result |-> 0]
  /\ news = NoContainer
  /\ auth = ColdTokenStore
  /\ page = MountedPage
  /\ orders = [enriched |-> << >>, symbolMap |-> << >>]

NoPortfolio ==
  /\ assets' = << >>
  /\ feesArg' = << >>
  /\ smaWindow' = 0
  /\ processed' = << >>
  /\ chart' = << >>
  /\ pairs' = << >>

\* calculateReturns(priceData, startIndex) on a freshly fetched series
CalculateReturns ==
  /\ call = "none"
  /\ \E pd \in PriceSeries, startIndex \in 0 .. MaxDay :
    /\ UNCHANGED serviceVars
    /\ call' = "calculateReturns"
    /\ priceData' = pd
    /\ arg' = startIndex
    /\ input' = << >>
    /\ threw' = calculateReturnsThrows(pd, startIndex)
    /\ heap' = IF threw' THEN Thrown(<<pd>>, 1)
               ELSE Called(1, calculateReturnsAt(<<pd>>, 1, startIndex))
    /\ output' = IF threw' THEN << >> ELSE heap'.cells[heap'.result]
    /\ rebases' = 0
    /\ NoPortfolio

\* applyFees(output, yearlyFeePercent) on the result of calculateReturns
ApplyFees ==
  /\ call = "calculateReturns" /\ ~threw
  /\ \E yearlyFeePercent \in FeeValues :
    /\ UNCHANGED serviceVars
    /\ call' = "applyFees"
    /\ arg' = yearlyFeePercent
    /\ input' = output
    /\ output' = applyFees(output, yearlyFeePercent)
    /\ heap' = Called(1, applyFeesAt(<<output>>, 1, yearlyFeePercent))
    /\ UNCHANGED <<threw, priceData, rebases,
                   assets, feesArg, smaWindow, processed, chart, pairs>>

\* calculateSMA(output, window) on raw or fee-adjusted returns; the window is
\* >= 1 as in the only call of the source, which is guarded by smaWindow <= 0
CalculateSMA ==
  /\ call \in {"calculateReturns", "applyFees"} /\ ~threw
  /\ \E window \in 1 .. MaxWindow :
    /\ UNCHANGED serviceVars
    /\ call' = "calculateSMA"
    /\ arg' = window
    /\ input' = output
    /\ heap' = Called(1, calculateSMAAt(<<output>>, 1, window))
    /\ output' = heap'.cells[heap'.result]
    /\ UNCHANGED <<threw, priceData, rebases,
                   assets, feesArg, smaWindow, processed, chart, pairs>>

\* rebaseReturns(output, rebaseIndex) at any valid index
RebaseReturns ==
  /\ call \in {"calculateReturns", "applyFees", "calculateSMA",
               "rebaseReturns"}
  /\ ~threw
  /\ rebases < MaxRebase
  /\ \E rebaseIndex \in Indices(output) :
    /\ UNCHANGED serviceVars
    /\ call' = "rebaseReturns"
    /\ arg' = rebaseIndex
    /\ input' = output
    /\ heap' = Called(1, rebaseReturnsAt(<<output>>, 1, rebaseIndex))
    /\ output' = heap'.cells[heap'.result]
    /\ rebases' = rebases + 1
    /\ UNCHANGED <<threw, priceData,
                   assets, feesArg, smaWindow, processed, chart, pairs>>

\* processPortfolioReturns(assets, fees, smaWindow)
ProcessPortfolioReturns ==
  /\ call = "none"
  /\ \E as \in AssetCollections, w \in 0 .. MaxWindow :
    \E fees \in FeeRecords(as) :
      /\ UNCHANGED serviceVars
      /\ call' = "processPortfolioReturns"
      /\ assets' = as
      /\ feesArg' = fees
      /\ smaWindow' = w
      /\ threw' = processPortfolioReturnsThrows(as, fees, w)
      /\ processed' = IF threw' THEN << >>
                      ELSE processPortfolioReturns(as, fees, w)
      /\ heap' = IF threw' THEN Thrown(AssetCells(as), Len(as) + 1)
                 ELSE Called(Len(as) + 1,
                             processPortfolioReturnsAt(AssetCells(as),
                                                       Len(as) + 1, fees, w))
      /\ priceData' = << >>
      /\ arg' = 0
      /\ input' = << >>
      /\ output' = << >>
      /\ rebases' = 0
      /\ UNCHANGED <<chart, pairs>>

Next ==
  \/ CalculateReturns
  \/ ApplyFees
  \/ CalculateSMA
  \/ RebaseReturns
  \/ ProcessPortfolioReturns

Spec == Init /\ [][Next]_vars

(* ------------------------ comparing assets --------------------------- *)
\* processPortfolioReturns on the compared assets, without fees or with the
\* same fee on every asset
ProcessComparedAssets ==
  /\ call = "none"
  /\ \E as \in ComparedCollections, w \in ComparedWindows, fee \in {0, 18250} :
      /\ UNCHANGED serviceVars
      /\ call' = "processPortfolioReturns"
      /\ assets' = as
      /\ feesArg' = [symbol \in {as[i].symbol : i \in 1 .. Len(as)} |-> fee]
      /\ smaWindow' = w
      /\ threw' = processPortfolioReturnsThrows(as, feesArg', w)
      /\ processed' = IF threw' THEN << >>
                      ELSE processPortfolioReturns(as, feesArg', w)
      /\ heap' = IF threw' THEN Thrown(AssetCells(as), Len(as) + 1)
                 ELSE Called(Len(as) + 1,
                             processPortfolioReturnsAt(AssetCells(as),
                                                       Len(as) + 1,
                                                       feesArg', w))
      /\ UNCHANGED <<priceData, arg, input, output, rebases, chart, pairs>>

\* mergeReturnsForChart(processed)
MergeReturnsForChart ==
  /\ call = "processPortfolioReturns" /\ ~threw
  /\ UNCHANGED serviceVars
  /\ call' = "mergeReturnsForChart"
  /\ heap' = Called(Len(processed) + 1,
                    mergeReturnsForChartAt(ReturnDataCells(processed),
                                           Len(processed) + 1))
  /\ chart' = heap'.cells[heap'.result]
  /\ UNCHANGED <<threw, priceData, arg, input, output, rebases,
                 assets, feesArg, smaWindow, processed, pairs>>

\* calculateCorrelations(processed)
CalculateCorrelations ==
  /\ call = "processPortfolioReturns" /\ ~threw
  /\ UNCHANGED serviceVars
  /\ call' = "calculateCorrelations"
  /\ heap' = Called(Len(processed) + 1,
                    calculateCorrelationsAt(ReturnDataCells(processed),
                                            Len(processed) + 1))
  /\ pairs' = heap'.cells[heap'.result]
  /\ UNCHANGED <<threw, priceData, arg, input, output, rebases,
                 assets, feesArg, smaWindow, processed, chart>>

\* processPortfolioReturns on two compared assets under any of the fees
ProcessComparedPair ==
  /\ call = "none"
  /\ \E as \in {c \in ComparedCollections : Len(c) = 2},
        w \in ComparedWindows, fee \in FeeValues :
      /\ UNCHANGED serviceVars
      /\ call' = "processPortfolioReturns"
      /\ assets' = as
      /\ feesArg' = [symbol \in {as[i].symbol : i \in 1 .. Len(as)} |-> fee]
      /\ smaWindow' = w
      /\ threw' = processPortfolioReturnsThrows(as, feesArg', w)
      /\ processed' = IF threw' THEN << >>
                      ELSE processPortfolioReturns(as, feesArg', w)
      /\ heap' = IF threw' THEN Thrown(AssetCells(as), Len(as) + 1)
                 ELSE Called(Len(as) + 1,
                             processPortfolioReturnsAt(AssetCells(as),
                                                       Len(as) + 1,
                                                       feesArg', w))
      /\ UNCHANGED <<priceData, arg, input, output, rebases, chart, pairs>>

NextPair ==
  \/ ProcessComparedPair
  \/ CalculateCorrelations

SpecPair == Init /\ [][NextPair]_vars

NextCompare ==
  \/ ProcessComparedAssets
  \/ MergeReturnsForChart
  \/ CalculateCorrelations

SpecCompare == Init /\ [][NextCompare]_vars

\* the exported functions, each on what the one before it returned
NextCalls ==
  \/ CalculateReturns
  \/ ApplyFees
  \/ CalculateSMA
  \/ ProcessComparedPair
  \/ MergeReturnsForChart
  \/ CalculateCorrelations

SpecCalls == Init /\ [][NextCalls]_vars

(* ------------------------ polygon news: invocations ------------------- *)
\* a new container: the module is loaded, the cache is empty
ColdStart ==
  /\ news.pc \in {"cold", "idle"}
  /\ \E key \in BOOLEAN :
       news' = [NoContainer EXCEPT !.pc = "idle", !.API_KEY = key,
                                   !.ticks = news.ticks]
  /\ UNCHANGED <<calculationVars, auth, page, orders>>

\* time passes between and during invocations
Tick ==
  /\ news.pc \in {"idle", "fetching"}
  /\ news.ticks < MaxTicks
  /\ news' = [news EXCEPT !.ticks = @ + 1]
  /\ UNCHANGED <<calculationVars, auth, page, orders>>

\* the handler up to its first await (lines 21-66)
Invoke ==
  /\ news.pc = "idle"
  /\ \E httpMethod \in {"GET", "OPTIONS"},
        ticker \in NewsTickers, limit \in NewsLimits :
       LET cacheKey == cacheKeyOf(ticker, limit)
           now == news.ticks * TickMs
           started == [news EXCEPT !.cacheKey = cacheKey, !.now = now,
                                   !.upstream = "none"]
       IN  news' =
             IF httpMethod = "OPTIONS"
               THEN [started EXCEPT !.outcome = Resolved(200, "none", "")]
             ELSE IF ~news.API_KEY
               THEN [started EXCEPT !.outcome =
                       Resolved(500, "none",
                                [error |-> "POLYGON_API_KEY not configured"])]
             ELSE IF IsFresh(news.cache, cacheKey, now)
               THEN [started EXCEPT !.outcome =
                       Resolved(200, "HIT", news.cache[cacheKey].data)]
             ELSE [started EXCEPT !.pc = "fetching",
                                  !.outcome = [kind |-> "none"]]
  /\ UNCHANGED <<calculationVars, auth, page, orders>>

\* the upstream answers with a status that is not ok (lines 68-76)
UpstreamNotOk ==
  /\ news.pc = "fetching"
  /\ \E status \in UpstreamErrors :
       news' = [news EXCEPT !.pc = "idle", !.upstream = "notOk",
                            !.outcome =
                              Resolved(status, "none",
                                       [error |-> status, results |-> "none"])]
  /\ UNCHANGED <<calculationVars, auth, page, orders>>

\* the upstream answers and its body parses (lines 78-160); the write to blob
\* storage of lines 106-149 catches its own errors and is not awaited
UpstreamOk ==
  /\ news.pc = "fetching"
  /\ \E results \in NewsResults :
       LET responseBody == [results |-> results]
       IN  news' = [news EXCEPT
                      !.pc = "idle", !.upstream = "ok",
                      !.cache = Evict(CacheSet(news.cache, news.cacheKey,
                                               responseBody, news.now)),
                      !.outcome = Resolved(200, "MISS", responseBody)]
  /\ UNCHANGED <<calculationVars, auth, page, orders>>

\* fetch rejects, or response.json() throws: control enters the catch block
UpstreamThrows ==
  /\ news.pc = "fetching"
  /\ news' = [news EXCEPT !.pc = "idle", !.upstream = "threw",
                          !.outcome = CatchBlock(news.cache, news.cacheKey)]
  /\ UNCHANGED <<calculationVars, auth, page, orders>>

NextNews ==
  \/ ColdStart
  \/ Tick
  \/ Invoke
  \/ UpstreamNotOk
  \/ UpstreamOk
  \/ UpstreamThrows

SpecNews == Init /\ [][NextNews]_vars

(* ------------------------ tokenStore: calls --------------------------- *)
\* Every await of a store or network call is a point where other calls of the
\* container run: the request is served by the store in one step and its
\* continuation runs in a later one.

AuthTick ==
  /\ auth.ticks < MaxAuthTicks
  /\ auth' = [auth EXCEPT !.ticks = @ + 1]
  /\ UNCHANGED <<calculationVars, news, page, orders>>

\* getToken up to `await store.get` (lines 85-92)
GetTokenStart ==
  /\ \E i \in GetCalls :
       /\ auth.gets[i].pc = "idle"
       /\ auth' =
            LET started == [auth EXCEPT !.gets[i].afterClear =
                              (auth.clear.pc = "returned"
                               /\ auth.clear.result = TRUE)]
            IN  IF CacheIsValid(auth)
                  THEN [started EXCEPT !.gets[i].pc = "done",
                                       !.gets[i].result = auth.cachedToken]
                ELSE [started EXCEPT !.gets[i].pc = "reading"]
  /\ UNCHANGED <<calculationVars, news, page, orders>>

\* the store serves the read of TOKEN_KEY, or the read fails and the catch of
\* lines 115-118 returns null
StoreGet ==
  /\ \E i \in GetCalls, ok \in BOOLEAN :
       /\ auth.gets[i].pc = "reading"
       /\ auth' = IF ok THEN [auth EXCEPT !.gets[i].pc = "read",
                                          !.gets[i].data = auth.blob]
                  ELSE [auth EXCEPT !.gets[i].pc = "done",
                                    !.gets[i].result = "null"]
  /\ UNCHANGED <<calculationVars, news, page, orders>>

GetTokenResume ==
  /\ \E i \in GetCalls :
       /\ auth.gets[i].pc = "read"
       /\ auth' = getTokenResume(auth, i)
  /\ UNCHANGED <<calculationVars, news, page, orders>>

\* refreshToken (lines 168-199): the refresh is granted and setToken stores
\* the new session, or it is refused
RefreshAnswer ==
  /\ \E i \in GetCalls, granted \in BOOLEAN :
       /\ auth.gets[i].pc = "refreshing"
       /\ auth' = IF granted
                    THEN [auth EXCEPT
                            !.blob = TokenData("t2", auth.ticks),
                            !.cachedToken = "t2",
                            !.cacheExpiry = auth.ticks + TokenLifetime,
                            !.refreshed = TRUE,
                            !.gets[i].pc = "done", !.gets[i].result = "t2"]
                  ELSE [auth EXCEPT !.gets[i].pc = "done",
                                    !.gets[i].result = "null"]
  /\ UNCHANGED <<calculationVars, news, page, orders>>

\* clearToken up to `await store.delete` (lines 152-154), as fetchWithAuth
\* calls it on a 401 (line 371)
ClearTokenStart ==
  /\ auth.clear.pc = "idle"
  /\ auth' = [auth EXCEPT !.clear.pc = "deleting"]
  /\ UNCHANGED <<calculationVars, news, page, orders>>

\* the store serves the delete, or the delete fails and clearToken returns
\* false (lines 159-162)
StoreDelete ==
  /\ auth.clear.pc = "deleting"
  /\ \E ok \in BOOLEAN :
       auth' = IF ok THEN [auth EXCEPT !.blob = NoData,
                                       !.clear.pc = "deleted"]
               ELSE [auth EXCEPT !.clear.pc = "returned",
                                 !.clear.result = FALSE]
  /\ UNCHANGED <<calculationVars, news, page, orders>>

\* clearToken after `await store.delete` (lines 155-158)
ClearTokenResume ==
  /\ auth.clear.pc = "deleted"
  /\ auth' = [auth EXCEPT !.cachedToken = "null", !.cacheExpiry = 0,
                          !.clear.pc = "returned", !.clear.result = TRUE]
  /\ UNCHANGED <<calculationVars, news, page, orders>>

NextAuth ==
  \/ AuthTick
  \/ GetTokenStart
  \/ StoreGet
  \/ GetTokenResume
  \/ RefreshAnswer
  \/ ClearTokenStart
  \/ StoreDelete
  \/ ClearTokenResume

SpecAuth == Init /\ [][NextAuth]_vars

(* ------------------------ ComparePage: events ------------------------- *)
\* the effect of lines 47-49 runs after the render that changed
\* selectedRange (and after the first render): fetchData()
RunEffect ==
  /\ page.effectPending
  /\ Len(page.inFlight) < MaxInFlight
  /\ page' = [fetchDataStart(page, FALSE) EXCEPT !.effectPending = FALSE]
  /\ UNCHANGED <<calculationVars, news, auth, orders>>

\* a click on a range button (line 165); the same range does not re-render
SelectRange ==
  /\ ControlsShown(page)
  /\ Len(page.inFlight) < MaxInFlight
  /\ \E range \in TIME_RANGES \ {page.selectedRange} :
       page' = [page EXCEPT !.selectedRange = range, !.effectPending = TRUE]
  /\ UNCHANGED <<calculationVars, news, auth, orders>>

\* a click on Refresh (lines 151, 152): fetchData(true)
ClickRefresh ==
  /\ ControlsShown(page) /\ ~page.refreshing
  /\ Len(page.inFlight) < MaxInFlight
  /\ page' = fetchDataStart(page, TRUE)
  /\ UNCHANGED <<calculationVars, news, auth, orders>>

\* a click on the button of the error view (line 131): fetchData()
ClickRetry ==
  /\ ~page.loading /\ page.error # "null" /\ ~page.effectPending
  /\ Len(page.inFlight) < MaxInFlight
  /\ page' = fetchDataStart(page, FALSE)
  /\ UNCHANGED <<calculationVars, news, auth, orders>>

\* a pending getPortfolioData resolves or rejects, in any order
FetchSettles ==
  /\ \E i \in 1 .. Len(page.inFlight), ok \in BOOLEAN :
       page' = fetchDataSettle(page, i, ok)
  /\ UNCHANGED <<calculationVars, news, auth, orders>>

NextPage ==
  \/ RunEffect
  \/ SelectRange
  \/ ClickRefresh
  \/ ClickRetry
  \/ FetchSettles

SpecPage == Init /\ [][NextPage]_vars

(* ------------------------ order P&L: the loop ------------------------- *)
\* one iteration of the loop of line 621 on the next order in chronological
\* order
ProcessOrder ==
  /\ Len(orders.enriched) < MaxOrders
  /\ \E symbol \in OrderSymbols, side \in {"buy", "sell"},
        quantity \in OrderQuantities, price \in OrderPrices :
       LET order == [symbol |-> symbol, side |-> side,
                     quantity |-> quantity, price |-> price]
       IN  orders' = [enriched |-> Append(orders.enriched, order),
                      symbolMap |->
                        calculateOrderPnLStep(orders.symbolMap, order)]
  /\ UNCHANGED <<calculationVars, news, auth, page>>

NextOrders ==
  \/ ProcessOrder

SpecOrders == Init /\ [][NextOrders]_vars

(* ------------------------ properties ---------------------------------- *)
\* 1 + r/100, the growth factor of a percentage return
Gross(r) == Add(Num(1), Div(r, Num(100)))

\* every field but returnPercent and smaReturnPercent is the same
SameIdentity(p, q) ==
  p.date = q.date /\ p.timestamp = q.timestamp /\ p.price = q.price

AllFinite(returns) ==
  \A i \in Indices(returns) : IsFinite(At(returns, i).returnPercent)

RECURSIVE SumOver(_, _, _)
\* sum of returnPercent over indices lo..hi
SumOver(returns, lo, hi) ==
  IF lo > hi THEN Num(0)
  ELSE Add(At(returns, lo).returnPercent, SumOver(returns, lo + 1, hi))

\* C1: for a non-empty series of positive prices and a valid startIndex,
\* calculateReturns returns as many points as it was given, point i copies
\* date, timestamp and price of input point i and has returnPercent
\* (price[i] - price[startIndex]) / price[startIndex] * 100, which is exactly 0
\* at startIndex.
C1_ReturnsRelativeToStart ==
  (call = "calculateReturns" /\ ~threw /\ Len(priceData) > 0) =>
    /\ Len(output) = Len(priceData)
    /\ \A i \in Indices(priceData) :
         /\ SameIdentity(At(output, i), At(priceData, i))
         /\ At(output, i).returnPercent =
              Rat((At(priceData, i).price - At(priceData, arg).price) * 100,
                  At(priceData, arg).price)
    /\ At(output, arg).returnPercent = Num(0)

C1_Witness ==
  /\ call = "calculateReturns" /\ ~threw
  /\ Len(priceData) = 3 /\ arg = 2
  /\ At(priceData, 0).price # At(priceData, 2).price
  /\ At(output, 0).returnPercent # Num(0)

\* C2 (as claimed): processPortfolioReturns never raises an exception, whatever
\* the asset collection (empty, an asset with an empty or one-point series),
\* the fees and the smaWindow >= 0, and an empty collection gives an empty
\* result.
C2_ProcessNeverThrows ==
  call = "processPortfolioReturns" =>
    /\ ~threw
    /\ Len(processed) = Len(assets)

\* C3: for yearlyFeePercent > 0, applyFees returns as many points as it was
\* given and the point at index i has returnPercent
\* ((1 + r[i]/100) * (1 - yearlyFeePercent/100/365)^i - 1) * 100, the index
\* counting one day per point whatever the dates; every other field is
\* unchanged.
C3_FeeFormula ==
  (call = "applyFees" /\ arg > 0) =>
    /\ Len(output) = Len(input)
    /\ \A i \in Indices(input) :
         /\ SameIdentity(At(output, i), At(input, i))
         /\ At(output, i).smaReturnPercent = At(input, i).smaReturnPercent
         /\ At(output, i).returnPercent =
              Mul(Sub(Mul(Gross(At(input, i).returnPercent),
                          Pow(Rat(36500 - arg, 36500), i)),
                      Num(1)), Num(100))

C3_Witness ==
  /\ call = "applyFees" /\ arg = 18250
  /\ Len(input) = 2
  /\ At(input, 1).date = At(input, 0).date + 2
  /\ At(output, 1).returnPercent # At(input, 1).returnPercent

FeeNeverRaises ==
  \A i \in Indices(input) :
    /\ LessEq(At(output, i).returnPercent, At(input, i).returnPercent)
    /\ (i = 0 => StrictEq(At(output, i).returnPercent,
                          At(input, i).returnPercent))
    /\ (i > 0 => Less(At(output, i).returnPercent, At(input, i).returnPercent))

\* C4 (as claimed): for every yearlyFeePercent > 0 and returns derived from
\* positive prices, each fee-adjusted returnPercent is <= the un-adjusted one,
\* equal at index 0 and strictly less at every index > 0.
C4_FeeMonotoneAnyFee ==
  (call = "applyFees" /\ arg > 0) => FeeNeverRaises

\* C4 (amended): the same for 0 < yearlyFeePercent < 73000, that is for a daily
\* fee rate below 2.
C4_FeeMonotone ==
  (call = "applyFees" /\ arg > 0 /\ arg < 73000) => FeeNeverRaises

C4_Witness ==
  /\ call = "applyFees" /\ arg = 18250
  /\ Len(input) = 3
  /\ Less(At(output, 2).returnPercent, At(input, 2).returnPercent)
  /\ Less(Num(0), At(input, 2).returnPercent)

\* C5: with yearlyFeePercent = 0 or an empty input, applyFees returns exactly
\* the points it was given.
C5_ZeroFeeIdentity ==
  (call = "applyFees" /\ (arg = 0 \/ Len(input) = 0)) => output = input

C5_Witness ==
  /\ call = "applyFees" /\ arg = 0
  /\ Len(input) = 1
  /\ output = input

\* C6: for window >= 1, calculateSMA leaves smaReturnPercent undefined at every
\* index < window - 1 and sets a finite number at every index >= window - 1
\* (nowhere when window exceeds the length).
C6_SmaWarmup ==
  (call = "calculateSMA" /\ arg >= 1) =>
    /\ Len(output) = Len(input)
    /\ \A i \in Indices(input) :
         /\ (i < arg - 1 => At(output, i).smaReturnPercent = Undefined)
         /\ (i >= arg - 1 => IsFinite(At(output, i).smaReturnPercent))

C6_Witness ==
  /\ call = "calculateSMA" /\ arg = 2
  /\ Len(input) = 3
  /\ At(output, 0).smaReturnPercent = Undefined
  /\ IsFinite(At(output, 1).smaReturnPercent)

\* C7: for window >= 1 and index i >= window - 1, smaReturnPercent[i] is the
\* arithmetic mean of returnPercent over the window points i-window+1 .. i, and
\* returnPercent, price, date and timestamp of every point are unchanged.
C7_SmaIsTrailingMean ==
  (call = "calculateSMA" /\ arg >= 1) =>
    \A i \in Indices(input) :
      /\ SameIdentity(At(output, i), At(input, i))
      /\ At(output, i).returnPercent = At(input, i).returnPercent
      /\ (i >= arg - 1 =>
            At(output, i).smaReturnPercent =
              Div(SumOver(input, i - arg + 1, i), Num(arg)))

C7_Witness ==
  /\ call = "calculateSMA" /\ arg = 2
  /\ Len(input) = 3
  /\ At(input, 1).returnPercent # At(input, 2).returnPercent
  /\ At(output, 2).smaReturnPercent # At(output, 2).returnPercent

\* the first visible point of every asset with data is at 0%
FirstVisibleIsZero(feeOk(_)) ==
  \A i \in 1 .. Len(assets) :
    (Len(assets[i].data) > 0 /\ feeOk(assets[i])) =>
      /\ Len(processed[i].returns) > 0
      /\ StrictEq(processed[i].returns[1].returnPercent, Num(0))

AnyFee(asset) == TRUE

\* the fee-adjusted return at the rebase index is not -100 %: with positive
\* prices it is -100 % exactly when the daily fee rate is 1 and the index >= 1
BaseNotWipedOut(asset) ==
  FeeOf(feesArg, asset.symbol) # 36500 \/ Len(asset.data) = 1

RatioKept(x, y) ==
  StrictEq(Div(Gross(At(output, x).returnPercent),
               Gross(At(output, y).returnPercent)),
           Div(Gross(At(input, x).returnPercent),
               Gross(At(input, y).returnPercent)))

SameReturns(new, old) ==
  /\ Len(new) = Len(old)
  /\ \A i \in Indices(old) :
       /\ StrictEq(At(new, i).returnPercent, At(old, i).returnPercent)
       /\ (At(old, i).smaReturnPercent # Undefined =>
             StrictEq(At(new, i).smaReturnPercent, At(old, i).smaReturnPercent))

RebaseIdentity ==
  (call = "rebaseReturns" /\ StrictEq(At(input, arg).returnPercent, Num(0))) =>
    SameReturns(output, input)

\* a second rebaseReturns at the index of the one before it
RebasedAgain == call = "rebaseReturns" /\ call' = "rebaseReturns" /\ arg' = arg

ProcessedWithSMA(minLen) ==
  IF call = "processPortfolioReturns" /\ ~threw /\ smaWindow >= 1
    THEN {i \in 1 .. Len(assets) : Len(assets[i].data) >= minLen}
  ELSE {}

\* C11: for smaWindow = w >= 1 and an asset with L >= 1 price points,
\* processPortfolioReturns discards exactly the first min(w, L-1) points and
\* returns the other L - min(w, L-1) points in order, the first of them being
\* input point min(w, L-1); an input with L <= w yields exactly its last point.
C11_TrimWarmup ==
  \A i \in ProcessedWithSMA(1) :
    LET data == assets[i].data
        L == Len(data)
        cut == IF smaWindow < L - 1 THEN smaWindow ELSE L - 1
        visible == processed[i].returns
    IN  /\ Len(visible) = L - cut
        /\ \A k \in Indices(visible) :
             SameIdentity(At(visible, k), At(data, cut + k))
        /\ (L <= smaWindow =>
              Len(visible) = 1 /\ SameIdentity(visible[1], data[L]))

C11_Witness ==
  /\ ProcessedWithSMA(1) = {1}
  /\ smaWindow = 1 /\ Len(assets[1].data) = 3
  /\ Len(processed[1].returns) = 2
  /\ processed[1].returns[1].date = assets[1].data[2].date
  /\ processed[1].returns[2].date = assets[1].data[3].date

\* growth factor of the fee-adjusted return of input point i, counted from the
\* first fetched point: price[i]/price[0] * (1 - dailyFeeRate)^i
AdjustedGross(asset, i) ==
  Mul(Rat(At(asset.data, i).price, At(asset.data, 0).price),
      Pow(Rat(36500 - FeeOf(feesArg, asset.symbol), 36500), i))

RECURSIVE SumAdjusted(_, _, _)
\* sum of the fee-adjusted returnPercent of input points lo..hi
SumAdjusted(asset, lo, hi) ==
  IF lo > hi THEN Num(0)
  ELSE Add(Mul(Sub(AdjustedGross(asset, lo), Num(1)), Num(100)),
           SumAdjusted(asset, lo + 1, hi))

\* C12: with smaWindow = w >= 1 and more than w points, smaReturnPercent of
\* visible point k is the rebased arithmetic mean of the fee-adjusted returns of
\* the whole fetched series at input indices k+1 .. k+w (warm-up points
\* included), the fee multiplier of input index i being (1-dailyFeeRate)^i
\* counted from the first fetched point.
C12_SmaOverFullSeries ==
  \A i \in ProcessedWithSMA(smaWindow + 1) :
    LET visible == processed[i].returns
    IN  \A k \in Indices(visible) :
          At(visible, k).smaReturnPercent =
            Mul(Sub(Div(Gross(Div(SumAdjusted(assets[i], k + 1, k + smaWindow),
                                  Num(smaWindow))),
                        AdjustedGross(assets[i], smaWindow)),
                    Num(1)), Num(100))

C12_Witness ==
  /\ ProcessedWithSMA(3) = {1}
  /\ smaWindow = 2 /\ Len(assets[1].data) = 3
  /\ FeeOf(feesArg, assets[1].symbol) = 18250
  /\ assets[1].data[2].price # assets[1].data[3].price
  /\ IsFinite(processed[1].returns[1].smaReturnPercent)
  /\ processed[1].returns[1].smaReturnPercent # Num(0)

VisibleSmaFinite(feeOk(_)) ==
  \A i \in ProcessedWithSMA(smaWindow + 1) :
    feeOk(assets[i]) =>
      \A k \in Indices(processed[i].returns) :
        IsFinite(At(processed[i].returns, k).smaReturnPercent)

Merged == call = "mergeReturnsForChart"

\* the dates on which the processed asset i has a point
DatesOf(i) == {processed[i].returns[k].date : k \in 1 .. Len(processed[i].returns)}

\* the point of the processed asset i on a date
PointOn(i, date) ==
  processed[i].returns[CHOOSE k \in 1 .. Len(processed[i].returns) :
                         processed[i].returns[k].date = date]

\* C14: no row returned by mergeReturnsForChart has a date that is missing
\* from the returns of any one of the input assets.
C14_MergeIntersection ==
  Merged =>
    \A r \in 1 .. Len(chart) : \A i \in 1 .. Len(processed) :
      chart[r].date \in DatesOf(i)

\* two assets on different calendars: a date of the first one that the second
\* one lacks is dropped, a date of both is kept
C14_Witness ==
  /\ Merged /\ Len(processed) = 2 /\ Len(chart) >= 1
  /\ \E d \in DatesOf(1) \ DatesOf(2) :
       \A r \in 1 .. Len(chart) : chart[r].date # d

\* C15: for a non-empty collection the dates of the rows are exactly the dates
\* on which every input asset has a point, each of them in exactly one row,
\* and the rows are ordered by non-decreasing timestamp.
C15_CommonDatesInOrder ==
  (Merged /\ Len(processed) >= 1) =>
    /\ {chart[r].date : r \in 1 .. Len(chart)}
         = {d \in DatesOf(1) : \A i \in 1 .. Len(processed) : d \in DatesOf(i)}
    /\ \A r, q \in 1 .. Len(chart) :
         /\ (r # q => chart[r].date # chart[q].date)
         /\ (r < q => chart[r].timestamp <= chart[q].timestamp)

\* three assets on three calendars that share more than one date, one of the
\* assets having a date the others lack
C15_Witness ==
  /\ Merged /\ Len(processed) = 3 /\ Len(chart) >= 2
  /\ DatesOf(1) # DatesOf(2) /\ DatesOf(2) # DatesOf(3)
  /\ chart[1].timestamp < chart[2].timestamp

\* the row holds, for the processed asset i, the given return and SMA values
\* under the keys S and S_sma, and the price under S_price
RowHolds(row, i, Shown(_, _)) ==
  LET S == processed[i].symbol
      point == PointOn(i, row.date)
  IN  /\ S \in DOMAIN row.returns
      /\ Shown(row.returns[S], point.returnPercent)
      /\ S \in DOMAIN row.prices
      /\ row.prices[S] = point.price
      /\ (S \in DOMAIN row.sma) <=> (point.smaReturnPercent # Undefined)
      /\ (S \in DOMAIN row.sma =>
            Shown(row.sma[S], point.smaReturnPercent))

RowsHold(Shown(_, _)) ==
  Merged =>
    \A r \in 1 .. Len(chart) :
      /\ chart[r].timestamp = Timestamp(chart[r].date)
      /\ \A i \in 1 .. Len(processed) : RowHolds(chart[r], i, Shown)

\* shown is the value itself
AsIs(shown, x) == StrictEq(shown, x)

\* shown is x to two decimals: a whole number of hundredths, the nearest one to
\* x, and the one further from 0 when x lies half-way between two
ToTwoDecimals(shown, x) ==
  IF ~IsFinite(x) THEN shown = x
  ELSE LET hundredths == Mul(shown, Num(100))
           off == Mul(Sub(shown, x), Num(200))
       IN  /\ IsFinite(shown) /\ hundredths.d = 1
           /\ LessEq(Num(-1), off) /\ LessEq(off, Num(1))
           /\ (Abs(off.n) = off.d => Abs(shown.n) * x.d > Abs(x.n) * shown.d)

\* C16 as stated: every row has date and timestamp and, for every asset S, S
\* equal to the returnPercent and S_price equal to the price of that asset on
\* that date, and S_sma exactly when the SMA is defined, equal to it.
C16_RowValuesExact == RowsHold(AsIs)

\* C16: the same, the values under S and S_sma being the returnPercent and the
\* SMA rounded to two decimals.
C16_RowValuesRounded == RowsHold(ToTwoDecimals)

\* a row with a return that has more than two decimals and a defined SMA
C16_Witness ==
  /\ Merged /\ Len(chart) >= 1
  /\ \E r \in 1 .. Len(chart), i \in 1 .. Len(processed) :
       LET point == PointOn(i, chart[r].date)
       IN  /\ Mul(point.returnPercent, Num(100)).d > 1
           /\ point.smaReturnPercent # Undefined
           /\ processed[i].symbol \in DOMAIN chart[r].sma

(* ------------------------ properties of the correlations -------------- *)
Correlated == call = "calculateCorrelations"

PairFieldsFinite(pair) ==
  /\ SurdIsFinite(pair.correlation)
  /\ IsFinite(pair.varianceContribution)
  /\ IsFinite(pair.varianceA)
  /\ IsFinite(pair.varianceB)

\* C17: for at least two asset series every correlation returned by
\* calculateCorrelations lies in [-1, 1] and is a finite number.
C17_CorrelationBounds ==
  (Correlated /\ Len(processed) >= 2) =>
    \A k \in 1 .. Len(pairs) :
      /\ SurdIsFinite(pairs[k].correlation)
      /\ LessEq(pairs[k].correlation.sq, Num(1))

\* three assets with a pair at correlation 1 and a pair strictly between -1
\* and 0
C17_Witness ==
  /\ Correlated /\ Len(processed) = 3 /\ Len(pairs) = 3
  /\ \E k \in 1 .. 3 :
       pairs[k].correlation.sgn = 1 /\ pairs[k].correlation.sq = Num(1)
  /\ \E k \in 1 .. 3 :
       pairs[k].correlation.sgn = -1 /\ Less(pairs[k].correlation.sq, Num(1))

\* the own variance contribution of an asset, as reported in the pairs
OwnVariance(sym) ==
  LET k == CHOOSE j \in 1 .. Len(pairs) :
             pairs[j].symbolA = sym \/ pairs[j].symbolB = sym
  IN  IF pairs[k].symbolA = sym THEN pairs[k].varianceA ELSE pairs[k].varianceB

TotalIsPositive ==
  /\ Correlated /\ Len(processed) >= 2
  /\ \E total \in {correlationLocals(processed).totalVariance} :
       Less(Num(0), total)

\* C18: when the total equal-weight variance is > 0, the own variance
\* contributions of all assets, each counted once, plus the
\* varianceContribution of all returned pairs add up to 100 (percent).
C18_VarianceSum ==
  TotalIsPositive =>
    StrictEq(
      Add(Sum([i \in 1 .. Len(processed) |-> OwnVariance(processed[i].symbol)]),
          Sum([k \in 1 .. Len(pairs) |-> pairs[k].varianceContribution])),
      Num(100))

\* three assets, a positive total, and a pair with a negative contribution
C18_Witness ==
  /\ Correlated /\ Len(processed) = 3 /\ Len(pairs) = 3
  /\ TotalIsPositive
  /\ \E k \in 1 .. 3 : Less(pairs[k].varianceContribution, Num(0))
  /\ \E k \in 1 .. 3 : Less(Num(0), pairs[k].varianceContribution)

\* the assets whose aligned daily returns have a zero standard deviation
\* (all of them when there is no common date)
FlatAssets ==
  UNION { {sym \in DOMAIN stds : SurdIsZero(stds[sym])}
          : stds \in {correlationLocals(processed).stds} }

\* C19: for an asset whose aligned daily returns have zero standard deviation
\* (or when there are no common dates) every returned pair that contains it has
\* correlation 0 and varianceContribution 0 and the own variance contribution
\* of the asset is 0; no returned field is NaN or infinite.
C19_ZeroStdGuarded ==
  (Correlated /\ Len(processed) >= 2) =>
    /\ \A k \in 1 .. Len(pairs) : PairFieldsFinite(pairs[k])
    /\ \A sym \in FlatAssets : \A k \in 1 .. Len(pairs) :
         (pairs[k].symbolA = sym \/ pairs[k].symbolB = sym) =>
           /\ SurdIsZero(pairs[k].correlation)
           /\ StrictEq(pairs[k].varianceContribution, Num(0))
           /\ StrictEq(OwnVariance(sym), Num(0))

\* a flat asset next to two assets that vary, on common dates
C19_Witness ==
  /\ Correlated /\ Len(processed) = 3
  /\ Cardinality(FlatAssets) = 1
  /\ Len(correlationLocals(processed).commonDates) >= 2
  /\ \E k \in 1 .. Len(pairs) : ~SurdIsZero(pairs[k].correlation)

TotalIsZero ==
  /\ Correlated /\ Len(processed) >= 2
  /\ \E total \in {correlationLocals(processed).totalVariance} :
       StrictEq(total, Num(0))

\* C20 as stated: if the total variance is 0, every returned
\* varianceContribution, varianceA and varianceB is 0.
C20_ZeroTotalAllZero ==
  TotalIsZero =>
    \A k \in 1 .. Len(pairs) :
      /\ StrictEq(pairs[k].varianceContribution, Num(0))
      /\ StrictEq(pairs[k].varianceA, Num(0))
      /\ StrictEq(pairs[k].varianceB, Num(0))

\* C20: if the total variance is 0, no division by it takes place: the
\* returned pairs carry the terms w*w*sd*sd and 2*w*w*cov as they were
\* computed, and all of them are 0 when every asset has a zero standard
\* deviation.
C20_ZeroTotalUnnormalised ==
  TotalIsZero =>
    /\ \E raw \in {correlationLocals(processed).pairs} :
         \A k \in 1 .. Len(pairs) :
           /\ PairFieldsFinite(pairs[k])
           /\ \E j \in 1 .. Len(raw) : pairs[k] = raw[j]
    /\ (FlatAssets = symbolsOf(processed) =>
          \A k \in 1 .. Len(pairs) :
            /\ StrictEq(pairs[k].varianceContribution, Num(0))
            /\ StrictEq(pairs[k].varianceA, Num(0))
            /\ StrictEq(pairs[k].varianceB, Num(0)))

\* two assets that vary and offset each other exactly: the total is 0 and the
\* own terms are not
C20_Witness ==
  /\ TotalIsZero /\ Len(pairs) = 1
  /\ Less(Num(0), pairs[1].varianceA)
  /\ Less(pairs[1].varianceContribution, Num(0))

\* C21: calculateCorrelations over n asset series returns n(n-1)/2 pairs (none
\* when n < 2), one for each pair of input positions i < j with symbolA the
\* symbol of asset i and symbolB the symbol of asset j, in an order in which
\* the absolute value of the correlation never increases.
C21_PairsSorted ==
  Correlated =>
    LET n == Len(processed)
    IN  /\ (n < 2 => pairs = << >>)
        /\ 2 * Len(pairs) = n * (n - 1)
        /\ \A i, j \in 1 .. n :
             i < j =>
               Cardinality({k \in 1 .. Len(pairs) :
                              /\ pairs[k].symbolA = processed[i].symbol
                              /\ pairs[k].symbolB = processed[j].symbol}) = 1
        /\ \A k \in 1 .. Len(pairs) - 1 :
             ~AbsLess(pairs[k].correlation, pairs[k + 1].correlation)

\* three assets whose three pairs come back in another order than the one of
\* the loops, the first one with the strictly largest |correlation|
C21_Witness ==
  /\ Correlated /\ Len(processed) = 3 /\ Len(pairs) = 3
  /\ pairs[1].symbolA = processed[2].symbol
  /\ pairs[1].symbolB = processed[3].symbol
  /\ AbsLess(pairs[2].correlation, pairs[1].correlation)

\* the daily return that dateMap holds for a symbol on a date, Undefined when
\* it holds none
DailyOn(sym, date) ==
  LET dateMap == dateMapOf(processed).dateMap
  IN  IF date \in DOMAIN dateMap /\ sym \in DOMAIN dateMap[date]
        THEN dateMap[date][sym]
      ELSE Undefined

\* 1 + r/100 of point i (from 0) of the processed asset a
GrowthAt(a, i) ==
  Add(Num(1), Div(At(processed[a].returns, i).returnPercent, Num(100)))

\* dateMap holds, for every point i >= 1 of every asset, the given daily return
\* under the date of point i, and none under the date of the first point
DailyReturnsAre(Daily(_, _)) ==
  (Correlated /\ Len(processed) >= 2) =>
    \A a \in 1 .. Len(processed) :
      LET returns == processed[a].returns
      IN  /\ \A i \in 1 .. Len(returns) - 1 :
               StrictEq(DailyOn(processed[a].symbol, At(returns, i).date),
                        Daily(a, i))
          /\ (Len(returns) >= 1 =>
                DailyOn(processed[a].symbol, At(returns, 0).date) = Undefined)

CompoundedDaily(a, i) == Sub(Div(GrowthAt(a, i), GrowthAt(a, i - 1)), Num(1))

GuardedDaily(a, i) ==
  IF Less(Num(0), GrowthAt(a, i - 1)) THEN CompoundedDaily(a, i) ELSE Num(0)

C23_AlignedOnCommonDates ==
  (Correlated /\ Len(processed) >= 2) =>
    LET locals == correlationLocals(processed)
        dateMap == locals.dateMap
        aligned == locals.alignedReturns
        symbols == symbolsOf(processed)
        common == {d \in DOMAIN dateMap : \A sym \in symbols : sym \in DOMAIN dateMap[d]}
    IN  \E dates \in {locals.commonDates} :
          /\ {dates[k] : k \in 1 .. Len(dates)} = common
          /\ Len(dates) = Cardinality(common)
          /\ \A sym \in symbols :
               /\ Len(aligned[sym]) = Len(dates)
               /\ \A k \in 1 .. Len(dates) :
                    aligned[sym][k] = dateMap[dates[k]][sym]

\* three assets: a date on which two of them have a daily return and the third
\* none is left out, and two dates are kept
C23_Witness ==
  /\ Correlated /\ Len(processed) = 3
  /\ \E locals \in {correlationLocals(processed)} :
       /\ Len(locals.commonDates) = 2
       /\ \E d \in DOMAIN locals.dateMap :
            Cardinality(DOMAIN locals.dateMap[d]) = 2

\* C24: after a call of calculateReturns, applyFees, calculateSMA,
\* processPortfolioReturns, mergeReturnsForChart or calculateCorrelations that
\* returned, the arrays passed to it hold the elements they held when they
\* were passed, every field of every point included
C24_InputsUntouched ==
  ~threw =>
    /\ call = "calculateReturns" => heap.cells[heap.argument] = priceData
    /\ call \in {"applyFees", "calculateSMA"} =>
         heap.cells[heap.argument] = input
    /\ call = "processPortfolioReturns" =>
         PortfolioAssetsOf(heap.cells, heap.argument) = assets
    /\ call \in {"mergeReturnsForChart", "calculateCorrelations"} =>
         PortfolioReturnDataOf(heap.cells, heap.argument) = processed

\* fees were charged on two points or more, so the result differs from the
\* argument
C24_Witness ==
  /\ call = "applyFees" /\ Len(input) >= 2 /\ arg # 0
  /\ output # input
  /\ heap.cells[heap.argument] = input

\* C25: calculateReturns, applyFees and calculateSMA return an array that is
\* not the array they were given
C25_ResultIsNewArray ==
  (call \in {"calculateReturns", "applyFees", "calculateSMA"} /\ ~threw) =>
    heap.result # heap.argument

\* the daily fee rate of a yearly fee percentage
DailyRate(yearlyFeePercent) ==
  Div(Div(Num(yearlyFeePercent), Num(100)), Num(365))

\* (price[w + k] / price[w] * (1 - d)^k - 1) * 100 on the fetched prices
TrimmedReturn(data, w, k, d) ==
  Mul(Sub(Mul(Div(Num(At(data, w + k).price), Num(At(data, w).price)),
              Pow(Sub(Num(1), d), k)),
          Num(1)),
      Num(100))

\* C26: with smaWindow = w >= 1, more than w points of positive price and a
\* daily fee rate d below 1, processPortfolioReturns returns L - w points and
\* the returnPercent of visible point k is
\* (price[w + k] / price[w] * (1 - d)^k - 1) * 100
C26_VisibleReturnsFromAnchor ==
  (call = "processPortfolioReturns" /\ ~threw /\ smaWindow >= 1) =>
    \A a \in 1 .. Len(assets) :
      \A d \in {DailyRate(FeeOf(feesArg, assets[a].symbol))} :
        (Len(assets[a].data) > smaWindow /\ Less(d, Num(1))) =>
          /\ Len(processed[a].returns) = Len(assets[a].data) - smaWindow
          /\ \A k \in Indices(processed[a].returns) :
               StrictEq(At(processed[a].returns, k).returnPercent,
                        TrimmedReturn(assets[a].data, smaWindow, k, d))

\* a fee is charged, a warm-up point differs in price from the anchor, and a
\* visible point after the anchor differs in price from it
C26_Witness ==
  /\ call = "processPortfolioReturns" /\ ~threw /\ smaWindow = 1
  /\ Len(assets) = 1 /\ Len(assets[1].data) = 3
  /\ FeeOf(feesArg, assets[1].symbol) = 18250
  /\ At(assets[1].data, 0).price # At(assets[1].data, 1).price
  /\ At(assets[1].data, 2).price # At(assets[1].data, 1).price
  /\ StrictEq(At(processed[1].returns, 1).returnPercent,
              TrimmedReturn(assets[1].data, 1, 1, DailyRate(18250)))

\* C27: an invocation whose upstream request threw resolves: with status 200,
\* X-Cache STALE and the cached body when the cache holds the request's key,
\* with status 502 and an empty results list otherwise; it never rejects
C27_UpstreamFailureAnswered ==
  (news.pc = "idle" /\ news.upstream = "threw") =>
    /\ news.outcome.kind = "resolved"
    /\ IF news.cacheKey \in DOMAIN news.cache
         THEN news.outcome = Resolved(200, "STALE",
                                      news.cache[news.cacheKey].data)
       ELSE /\ news.outcome.statusCode = 502
            /\ news.outcome.body.results = "none"

\* C28: once clearToken has returned true and no refresh has stored a new
\* session, a getToken call started after that return yields null
C28_NullAfterClear ==
  \A i \in GetCalls :
    (auth.gets[i].pc = "done" /\ auth.gets[i].afterClear /\ ~auth.refreshed)
      => auth.gets[i].result = "null"

\* C29: whenever the page shows its chart (loading and refreshing false, no
\* error, effects run) the data it holds was fetched for the selected range,
\* so the smaWindow used is the one of the range the data was fetched for
C29_DataOfSelectedRange ==
  (ControlsShown(page) /\ ~page.refreshing /\ page.portfolioData # "none") =>
    /\ page.portfolioData = page.selectedRange
    /\ getRangeConfig(page.selectedRange).smaWindow
         = getRangeConfig(page.portfolioData).smaWindow

\* the orders of a symbol among the processed ones, oldest first
OrdersOf(sym) == SelectSeq(orders.enriched, LAMBDA o : o.symbol = sym)

\* shares bought minus shares sold over the first n orders of a list
RECURSIVE HeldAfter(_, _)
HeldAfter(os, n) ==
  IF n = 0 THEN 0
  ELSE HeldAfter(os, n - 1)
       + (IF os[n].side = "buy" THEN os[n].quantity ELSE 0 - os[n].quantity)

\* no sale of the list is of more shares than were held before it
NoOversell(os) == \A n \in 1 .. Len(os) : HeldAfter(os, n) >= 0

\* C30: after any prefix of the orders, for every symbol,
\* realizedPnL = totalSold - totalBought + costBasis; and when no sale
\* exceeded the shares held and as many shares were sold as bought, costBasis
\* and sharesHeld are 0
C30_PnLIdentity ==
  \A sym \in DOMAIN orders.symbolMap :
    \A s \in {orders.symbolMap[sym]} :
      /\ StrictEq(s.realizedPnL,
                  Add(Sub(s.totalSold, s.totalBought), s.costBasis))
      /\ (NoOversell(OrdersOf(sym))
          /\ HeldAfter(OrdersOf(sym), Len(OrdersOf(sym))) = 0) =>
           /\ StrictEq(s.costBasis, Num(0))
           /\ StrictEq(s.sharesHeld, Num(0))

\* shares bought at two prices and all sold at a gain
C30_Witness ==
  /\ "MSTR" \in DOMAIN orders.symbolMap
  /\ orders.symbolMap["MSTR"].buyCount = 2
  /\ orders.symbolMap["MSTR"].sellCount = 1
  /\ NoOversell(OrdersOf("MSTR"))
  /\ StrictEq(orders.symbolMap["MSTR"].sharesHeld, Num(0))
  /\ StrictEq(orders.symbolMap["MSTR"].costBasis, Num(0))
  /\ Less(Num(0), orders.symbolMap["MSTR"].realizedPnL)
  /\ \E i, j \in 1 .. Len(OrdersOf("MSTR")) :
       /\ OrdersOf("MSTR")[i].side = "buy"
       /\ OrdersOf("MSTR")[j].side = "buy"
       /\ OrdersOf("MSTR")[i].price # OrdersOf("MSTR")[j].price

====
